---------------------------- MODULE Spec2Model ----------------------------
(***************************************************************************)
(* SupplyChainGenerator (src/Generator_Final_v1/data_generator.py): the    *)
(* distribution planner, the entity factory, the topology builder, the     *)
(* temporal evolution engine and the operations log.                       *)
(*                                                                         *)
(* Numbers.  Python floats are modelled in fixed point: a money, capacity  *)
(* or inventory value is a whole number of units, a reliability is in      *)
(* thousandths, and every factor of the temporal formula is in thousandths *)
(* (Scale).  A product is rounded down after each multiplication, in the   *)
(* order Python evaluates it.  int(n * ratio) is modelled with the         *)
(* rounding of the IEEE double product (IntOfProduct).                     *)
(*                                                                         *)
(* Randomness.  The module-level random source is modelled as a value rng  *)
(* (the seed, drawn in Init and advanced by every operation) and each call *)
(* of random.* as a function of rng and of the place of the call.          *)
(***************************************************************************)
EXTENDS Integers, Sequences, FiniteSets, TLC

VARIABLES
    pc,                    \* position of the caller: new, the steps of generate_data, ready, failed
    total_variable_nodes,  \* self.total_variable_nodes
    base_periods,          \* self.base_periods
    node_counts,           \* self.node_counts and the four *_distribution tables
    rng,                   \* state of the random source
    TEMPORAL_VARIATION,    \* config.TEMPORAL_VARIATION (read-only)
    business_group,        \* self.business_group
    product_families,      \* self.product_families
    product_offerings,     \* self.product_offerings
    suppliers,             \* self.suppliers
    warehouses,            \* self.warehouses
    facilities,            \* self.facilities
    parts,                 \* self.parts
    G,                     \* self.G
    temporal_graphs,       \* self.temporal_graphs
    operations_log,        \* self.operations_log
    timestamp,             \* self.timestamp
    current_period,        \* self.current_period
    returned,              \* what the last call of a simulate_* or add_* method returned
    drawn_inventory,       \* history: the random.randint(*INVENTORY_RANGE) drawn for each warehouse-to-part edge
    calls,                 \* number of calls made after generate_data
    first_run              \* history: the seed, and the log an earlier full run left

vars == <<pc, total_variable_nodes, base_periods, node_counts, rng, TEMPORAL_VARIATION,
          business_group, product_families, product_offerings, suppliers, warehouses,
          facilities, parts, G, temporal_graphs, operations_log, timestamp,
          current_period, returned, drawn_inventory, calls, first_run>>

(***************************************************************************)
(* Bounds of the model.                                                    *)
(***************************************************************************)
MaxBudget == 1000
MaxBasePeriods == 3
NumSeeds == 2
MaxCalls == 2
MaxSmallBudget == 16
GenSeeds == 4
MaxCounter == 1100

\* The budgets for which the whole generation is explored.
GenBudgets == {1, 14, 20, 34}

(***************************************************************************)
(* Arithmetic.                                                             *)
(***************************************************************************)
Min(a, b) == IF a <= b THEN a ELSE b
Max(a, b) == IF a >= b THEN a ELSE b

RECURSIVE Pow2Ceil(_)
\* The least power of two that is >= q (q >= 1).
Pow2Ceil(q) == IF q <= 1 THEN 1 ELSE 2 * Pow2Ceil((q + 1) \div 2)

\* Whether the double nearest to pct/100 lies below pct/100 by enough that the
\* double product n * (pct/100), whose real value is the integer q with
\* Pow2Ceil(q) = P, is rounded to the double below q.  0.35 = (M + 0.4) / 2^54,
\* 0.15 = (M + 0.2) / 2^55 and 0.6 = (M + 0.2) / 2^53 lie above their doubles;
\* 0.5 and 0.25 are doubles, and the doubles of 0.2 and 0.4 lie above them.
RoundsBelow(pct, n, P) ==
    CASE pct = 35 -> 2 * n > 5 * P
      [] pct = 15 -> n > 10 * P
      [] pct = 60 -> 2 * n > 5 * P
      [] OTHER -> FALSE

\* A planner that rounds every product up instead of truncating it.
IntOfProductRoundingUp(n, pct) == ((n * pct) + 99) \div 100

\* int(n * ratio) for ratio = pct/100.
IntOfProduct(n, pct) ==
    LET q == (n * pct) \div 100
    IN  IF (n * pct) % 100 = 0 /\ q > 0 /\ RoundsBelow(pct, n, Pow2Ceil(q))
        THEN q - 1
        ELSE q

(***************************************************************************)
(* calculate_node_distribution                                             *)
(***************************************************************************)
NodeDistribution(T) ==
    LET parts_n      == IntOfProduct(T, 50)
        suppliers_n  == IntOfProduct(T, 15)
        warehouses_n == IntOfProduct(T, 20)
        facilities_n == IntOfProduct(T, 15)
    IN  [parts |-> parts_n, suppliers |-> suppliers_n,
         warehouses |-> warehouses_n, facilities |-> facilities_n,
         parts_distribution |->
             [raw |-> IntOfProduct(parts_n, 60), subassembly |-> IntOfProduct(parts_n, 40)],
         supplier_distribution |->
             [small |-> IntOfProduct(suppliers_n, 40),
              medium |-> IntOfProduct(suppliers_n, 35),
              large |-> IntOfProduct(suppliers_n, 25)],
         warehouse_distribution |->
             [supplier |-> IntOfProduct(warehouses_n, 40),
              subassembly |-> IntOfProduct(warehouses_n, 35),
              lam |-> IntOfProduct(warehouses_n, 25)],
         facility_distribution |->
             [external |-> IntOfProduct(facilities_n, 60),
              lam |-> IntOfProduct(facilities_n, 40)]]

(***************************************************************************)
(* Configuration (config.py).  Ranges are <<low, high>>.                   *)
(***************************************************************************)
BUSINESS_GROUP == "Etch"
PRODUCT_FAMILIES == <<"Kyo", "Coronus", "Flex", "Versys Metal">>
PRODUCT_OFFERINGS ==
    [f \in {"Kyo", "Coronus", "Flex", "Versys Metal"} |->
        CASE f = "Kyo" -> <<"Versys Kyo", "Versys Kyo C Series", "Kyo C Series",
                            "Kyo E Series", "Kyo F Series", "Kyo G Series">>
          [] f = "Coronus" -> <<"Coronus", "Coronus HP", "Coronus DX">>
          [] f = "Flex" -> <<"Exelan Flex", "Exelan Flex45", "Flex D Series",
                             "Flex E Series", "Flex F Series", "Flex G Series",
                             "Flex H Series">>
          [] OTHER -> <<"Versys Metal", "Versys Metal45", "Versys Metal L",
                        "Versys Metal M", "Versys Metal N">>]
LOCATIONS == <<"California", "Texas", "Arizona", "Oregon", "New York",
               "Massachusetts", "Washington", "Florida", "Georgia">>
INVENTORY_RANGE == <<50, 1000>>
DEMAND_RANGE == <<10, 200>>
IMPORTANCE_FACTOR_RANGE == <<100, 1000>>          \* thousandths
COST_RANGE == <<100, 10000>>
CAPACITY_RANGE == <<1000, 10000>>
RELIABILITY_RANGE == <<600, 990>>                 \* thousandths
QUANTITY_RANGE == <<1, 20>>
TRANSPORTATION_COST_RANGE == <<10, 1000>>
TRANSPORTATION_TIME_RANGE == <<1, 30>>
DISTANCE_RANGE == <<10, 1000>>
SUPPLIER_SIZES ==
    [small  |-> [range |-> <<100, 300>>,  max_connections |-> 2],
     medium |-> [range |-> <<301, 600>>,  max_connections |-> 4],
     large  |-> [range |-> <<601, 1000>>, max_connections |-> 6]]
WAREHOUSE_SIZES ==
    [small  |-> [capacity |-> <<1000, 3000>>,  max_parts |-> 5],
     medium |-> [capacity |-> <<3001, 6000>>,  max_parts |-> 10],
     large  |-> [capacity |-> <<6001, 10000>>, max_parts |-> 15]]

\* The configuration the generator imports and this repository does not hold:
\* the part subtypes, the validity range in months, the base date (day 0: dates
\* are days since BASE_DATE) and the candidate temporal-variation tables
\* (thousandths), one of which lacks two features so that the default applies.
PART_TYPES == [raw |-> <<"raw_a", "raw_b">>, subassembly |-> <<"sub_a", "sub_b">>]
PART_VALIDITY_RANGE == <<1, 3>>
BASE_DATE == 0
TemporalVariations ==
    { [ft \in {"cost", "demand", "revenue", "capacity", "reliability", "inventory",
               "transportation_cost"} |-> [max_change |-> 0, trend |-> 0]],
      [ft \in {"cost", "demand", "revenue", "capacity", "reliability", "inventory",
               "transportation_cost"} |->
          CASE ft = "cost" -> [max_change |-> 50, trend |-> 20]
            [] ft = "demand" -> [max_change |-> 100, trend |-> 30]
            [] ft = "revenue" -> [max_change |-> 80, trend |-> 40]
            [] ft = "capacity" -> [max_change |-> 50, trend |-> 10]
            [] ft = "reliability" -> [max_change |-> 20, trend |-> 0]
            [] ft = "inventory" -> [max_change |-> 100, trend |-> 0]
            [] OTHER -> [max_change |-> 60, trend |-> 20]],
      [ft \in {"cost", "demand", "revenue", "reliability", "transportation_cost"} |->
          CASE ft = "cost" -> [max_change |-> 100, trend |-> 10]
            [] ft = "demand" -> [max_change |-> 200, trend |-> 0 - 20]
            [] ft = "revenue" -> [max_change |-> 50, trend |-> 50]
            [] ft = "reliability" -> [max_change |-> 10, trend |-> 0 - 5]
            [] OTHER -> [max_change |-> 100, trend |-> 30]] }

(***************************************************************************)
(* The random source.                                                      *)
(***************************************************************************)
HashMod == 1009

Mix(a) == (a * a + 7 * a + 13) % HashMod

\* The value, in 0 .. HashMod-1, that the random source in state r yields at
\* call site `site` for the i-th outer and j-th inner iteration.
Hash(r, site, i, j) ==
    Mix((Mix((Mix((r * 31 + site * 101) % HashMod) + i * 17) % HashMod) + j * 29) % HashMod)

NextRng(r) == (r * 17 + 5) % HashMod

\* random.randint(lo, hi)
RandInt(range, h) ==
    LET lo == range[1]
        hi == range[2]
    IN  IF hi - lo + 1 <= HashMod
        THEN lo + (h % (hi - lo + 1))
        ELSE lo + (h * (hi - lo)) \div (HashMod - 1)

\* random.uniform(lo, hi), in the unit of lo and hi
Uniform(range, h) == range[1] + (h * (range[2] - range[1])) \div (HashMod - 1)

\* random.random(), in thousandths
Random1000(h) == (h * 1000) \div HashMod

\* random.choice(seq)
Choice(seq, h) == seq[1 + (h % Len(seq))]

RemoveAt(seq, idx) == SubSeq(seq, 1, idx - 1) \o SubSeq(seq, idx + 1, Len(seq))

RECURSIVE Sample(_, _, _, _, _)
\* random.sample(pop, k) for k <= Len(pop): k distinct elements, in drawing order.
Sample(pop, k, r, site, i) ==
    IF k = 0 THEN <<>>
    ELSE LET idx == 1 + (Hash(r, site, i, k) % Len(pop))
         IN  <<pop[idx]>> \o Sample(RemoveAt(pop, idx), k - 1, r, site, i)

(***************************************************************************)
(* Identifiers: f'{prefix}_{counter:03d}'.                                 *)
(***************************************************************************)
DigitStr == <<"0", "1", "2", "3", "4", "5", "6", "7", "8", "9">>

RECURSIVE NumStr(_)
NumStr(n) == IF n < 10 THEN DigitStr[n + 1] ELSE NumStr(n \div 10) \o DigitStr[(n % 10) + 1]

\* A counter cut to its last three digits.
Pad3Truncating(n) ==
    LET m == n % 1000
    IN  IF m < 10 THEN "00" \o NumStr(m)
        ELSE IF m < 100 THEN "0" \o NumStr(m)
        ELSE NumStr(m)

Pad3(n) == IF n < 10 THEN "00" \o NumStr(n)
           ELSE IF n < 100 THEN "0" \o NumStr(n)
           ELSE NumStr(n)

MakeId(prefix, counter) == prefix \o "_" \o Pad3(counter)


(***************************************************************************)
(* _generate_temporal_value                                                *)
(***************************************************************************)
Scale == 1000

\* 1000 * sin(2 * pi * k / 12) for k in 0 .. 11
Sin1000(k) == <<0, 500, 866, 1000, 866, 500, 0, 0 - 500, 0 - 866, 0 - 1000, 0 - 866, 0 - 500>>[k + 1]

SeasonalFactor(feature_type, time_period) ==
    IF feature_type \in {"demand", "cost"}
    THEN Scale + ((150 * Sin1000((time_period - 3) % 12)) \div Scale)
    ELSE Scale

TemporalConfig(tv, feature_type) ==
    IF feature_type \in DOMAIN tv THEN tv[feature_type]
    ELSE [max_change |-> 100, trend |-> 0]

\* config['max_change'] or 0.1: a configured 0 is taken for a missing value.
GenerateTemporalValueZeroAsMissing(tv, base_value, feature_type, time_period, h) ==
    LET config == TemporalConfig(tv, feature_type)
        max_change == IF config.max_change = 0 THEN 100 ELSE config.max_change
        trend_factor == Scale + (config.trend * time_period)
        seasonal_factor == SeasonalFactor(feature_type, time_period)
        random_factor == Scale + Uniform(<<0 - max_change, max_change>>, h)
    IN  ((((((base_value * trend_factor) \div Scale) * seasonal_factor) \div Scale)
            * random_factor) \div Scale)

\* h is the value the random source yields for random.uniform(-max_change, max_change).
GenerateTemporalValue(tv, base_value, feature_type, time_period, h) ==
    LET config == TemporalConfig(tv, feature_type)
        trend_factor == Scale + (config.trend * time_period)
        seasonal_factor == SeasonalFactor(feature_type, time_period)
        random_factor == Scale + Uniform(<<0 - config.max_change, config.max_change>>, h)
    IN  ((((((base_value * trend_factor) \div Scale) * seasonal_factor) \div Scale)
            * random_factor) \div Scale)

(***************************************************************************)
(* The graph (networkx.DiGraph): nodes and edges in insertion order, each  *)
(* with its attribute dictionary.                                          *)
(***************************************************************************)
EmptyGraph == [node_ids |-> <<>>, node |-> <<>>, edge_ids |-> <<>>, edge |-> <<>>]

\* dict.update: the keys of `new` override those of `old`.
Update(old, new) == new @@ old

AddNode(g, id, attrs) ==
    IF id \in DOMAIN g.node
    THEN [g EXCEPT !.node[id] = Update(@, attrs)]
    ELSE [g EXCEPT !.node_ids = Append(g.node_ids, id),
                   !.node = g.node @@ (id :> attrs)]

AddEdge(g, u, v, attrs) ==
    IF <<u, v>> \in DOMAIN g.edge
    THEN [g EXCEPT !.edge[<<u, v>>] = Update(@, attrs)]
    ELSE [g EXCEPT !.edge_ids = Append(g.edge_ids, <<u, v>>),
                   !.edge = g.edge @@ (<<u, v>> :> attrs)]

RECURSIVE FlattenRange(_, _, _)
\* The concatenation of ss[lo], ..., ss[hi].
FlattenRange(ss, lo, hi) ==
    IF lo > hi THEN <<>>
    ELSE IF lo = hi THEN ss[lo]
    ELSE LET mid == (lo + hi) \div 2
         IN  FlattenRange(ss, lo, mid) \o FlattenRange(ss, mid + 1, hi)

\* The concatenation of a sequence of sequences.
Flatten(ss) == FlattenRange(ss, 1, Len(ss))

\* A write is an add_edge or a node attribute assignment together with the
\* operations it logs.
\* An edge write with its endpoints exchanged.
EdgeWriteReversed(u, v, attrs, log) ==
    [edge |-> TRUE, u |-> v, v |-> u, attrs |-> attrs, log |-> log]

EdgeWrite(u, v, attrs, log) == [edge |-> TRUE, u |-> u, v |-> v, attrs |-> attrs, log |-> log]
NodeWrite(id, attrs, log) == [edge |-> FALSE, u |-> id, v |-> "", attrs |-> attrs, log |-> log]

\* dict.update on both attribute tables: the nodes and edges of g2 are added to
\* g1 in order, and those g1 already has get their attributes updated.
Compose(g1, g2) ==
    [node_ids |-> g1.node_ids \o SelectSeq(g2.node_ids, LAMBDA x : x \notin DOMAIN g1.node),
     node |-> [x \in DOMAIN g1.node \cap DOMAIN g2.node |->
                  Update(g1.node[x], g2.node[x])] @@ g2.node @@ g1.node,
     edge_ids |-> g1.edge_ids \o SelectSeq(g2.edge_ids, LAMBDA x : x \notin DOMAIN g1.edge),
     edge |-> [x \in DOMAIN g1.edge \cap DOMAIN g2.edge |->
                  Update(g1.edge[x], g2.edge[x])] @@ g2.edge @@ g1.edge]

RECURSIVE WrittenBy(_, _, _)
\* What the writes ws[lo], ..., ws[hi], made in order, add and update.
WrittenBy(ws, lo, hi) ==
    IF lo > hi THEN EmptyGraph
    ELSE IF lo = hi
         THEN IF ws[lo].edge THEN AddEdge(EmptyGraph, ws[lo].u, ws[lo].v, ws[lo].attrs)
              ELSE AddNode(EmptyGraph, ws[lo].u, ws[lo].attrs)
    ELSE LET mid == (lo + hi) \div 2
         IN  Compose(WrittenBy(ws, lo, mid), WrittenBy(ws, mid + 1, hi))

\* The graph after the writes of ws, made in order.
ApplyWrites(g, ws) == Compose(g, WrittenBy(ws, 1, Len(ws)))

\* add_node for each element of the sequence `data`, in order.
AddNodes(g, data, node_type) ==
    ApplyWrites(g, [k \in 1 .. Len(data) |->
                       NodeWrite(data[k].id, data[k] @@ [node_type |-> node_type], <<>>)])

\* G.edges(data=True): by source node in node order, then by first insertion.
EdgesInOrder(g) ==
    Flatten([k \in 1 .. Len(g.node_ids) |->
                SelectSeq(g.edge_ids, LAMBDA e : e[1] = g.node_ids[k])])

(***************************************************************************)
(* _log_node_operation, _log_edge_operation                                *)
(***************************************************************************)
VERSION == "NSS_V1"

NodeOperation(action, node_id, node_type, properties, ts) ==
    [action |-> action, type |-> "schema",
     payload |-> [node_id |-> node_id, node_type |-> node_type, properties |-> properties],
     timestamp |-> ts, version |-> VERSION]

EdgeOperation(action, source_id, target_id, properties, edge_type, ts) ==
    [action |-> action, type |-> "schema",
     payload |-> [source_id |-> source_id, target_id |-> target_id,
                  edge_type |-> edge_type, properties |-> properties],
     timestamp |-> ts, version |-> VERSION]

IsNodeOp(op) == "node_id" \in DOMAIN op.payload
IsEdgeOp(op) == "source_id" \in DOMAIN op.payload


(***************************************************************************)
(* __init__, initialize_storage                                            *)
(***************************************************************************)
None == [id |-> "None"]

InitOver(budgets, periods, seeds, tables) ==
    /\ pc = "new"
    /\ total_variable_nodes \in budgets
    /\ base_periods \in periods
    /\ rng \in seeds
    /\ TEMPORAL_VARIATION \in tables
    /\ node_counts = None
    /\ business_group = None
    /\ product_families = <<>>
    /\ product_offerings = <<>>
    /\ suppliers = <<>>
    /\ warehouses = [supplier |-> <<>>, subassembly |-> <<>>, lam |-> <<>>]
    /\ facilities = [external |-> <<>>, lam |-> <<>>]
    /\ parts = [raw |-> <<>>, subassembly |-> <<>>]
    /\ G = EmptyGraph
    /\ temporal_graphs = <<>>
    /\ operations_log = <<>>
    /\ timestamp = 0
    /\ current_period = 0
    /\ returned = None
    /\ drawn_inventory = <<>>
    /\ calls = 0
    /\ first_run = [seed |-> rng, done |-> FALSE, log |-> <<>>]

Init == InitOver(GenBudgets, 1 .. MaxBasePeriods, 1 .. NumSeeds, TemporalVariations)

\* SupplyChainGenerator(total_variable_nodes, base_periods)
Construct ==
    /\ pc = "new"
    /\ node_counts' = NodeDistribution(total_variable_nodes)
    /\ pc' = "constructed"
    /\ UNCHANGED first_run
    /\ UNCHANGED <<total_variable_nodes, base_periods, rng, TEMPORAL_VARIATION,
                   business_group, product_families, product_offerings, suppliers,
                   warehouses, facilities, parts, G, temporal_graphs, operations_log,
                   timestamp, current_period, returned, drawn_inventory, calls>>

(***************************************************************************)
(* The entity factory.                                                     *)
(***************************************************************************)
Repeat(c, n) == [k \in 1 .. n |-> c]

\* The category of the k-th entity created, for each k: dist.items() in `order`.
Expand(dist, order) == Flatten([c \in 1 .. Len(order) |-> Repeat(order[c], dist[order[c]])])

\* A recorder that logs no entry for the creation of a node.
CreateOpsUnrecorded(data, node_type, ts) == <<>>

CreateOps(data, node_type, ts) ==
    [k \in 1 .. Len(data) |-> NodeOperation("create", data[k].id, node_type, data[k], ts)]

\* The offering names in creation order: for each family, its catalogue entries.
OfferingNames(families) ==
    Flatten([f \in 1 .. Len(families) |->
                IF families[f].name \in DOMAIN PRODUCT_OFFERINGS
                THEN PRODUCT_OFFERINGS[families[f].name] ELSE <<>>])

BusinessGroupData(r) ==
    [id |-> "BG_001", name |-> BUSINESS_GROUP,
     description |-> BUSINESS_GROUP \o " Business Unit",
     revenue |-> Uniform(COST_RANGE, Hash(r, 1, 0, 0))]

ProductFamilyData(r) ==
    [i \in 1 .. Len(PRODUCT_FAMILIES) |->
        [id |-> MakeId("PF", i), name |-> PRODUCT_FAMILIES[i],
         revenue |-> Uniform(COST_RANGE, Hash(r, 2, i, 0))]]

ProductOfferingData(r, families) ==
    LET names == OfferingNames(families)
    IN  [c \in 1 .. Len(names) |->
            [id |-> MakeId("PO", c), name |-> names[c],
             cost |-> Uniform(COST_RANGE, Hash(r, 3, c, 0)),
             demand |-> RandInt(DEMAND_RANGE, Hash(r, 3, c, 1))]]

GenerateBusinessHierarchy ==
    /\ pc = "constructed"
    /\ LET bg == BusinessGroupData(rng)
           pfs == ProductFamilyData(rng)
           pos == ProductOfferingData(rng, pfs)
       IN  /\ business_group' = bg
           /\ product_families' = pfs
           /\ product_offerings' = pos
           /\ G' = AddNodes(AddNodes(AddNodes(G, <<bg>>, "business_group"),
                                     pfs, "product_family"),
                            pos, "product_offering")
           /\ operations_log' = operations_log
                  \o CreateOps(<<bg>>, "BUSINESS_GROUP", timestamp)
                  \o CreateOps(pfs, "PRODUCT_FAMILY", timestamp)
                  \o CreateOps(pos, "PRODUCT_OFFERING", timestamp)
    /\ pc' = "suppliers"
    /\ rng' = NextRng(rng)
    /\ UNCHANGED first_run
    /\ UNCHANGED <<total_variable_nodes, base_periods, node_counts, TEMPORAL_VARIATION,
                   suppliers, warehouses, facilities, parts, temporal_graphs,
                   timestamp, current_period, returned, drawn_inventory, calls>>

SuppliedTypes(r, k) ==
    (IF Random1000(Hash(r, 4, k, 1)) < 700
     THEN Sample(PART_TYPES.raw,
                 RandInt(<<1, Len(PART_TYPES.raw)>>, Hash(r, 4, k, 2)), r, 5, k)
     ELSE <<>>)
    \o
    (IF Random1000(Hash(r, 4, k, 3)) < 300
     THEN Sample(PART_TYPES.subassembly,
                 RandInt(<<1, Len(PART_TYPES.subassembly)>>, Hash(r, 4, k, 4)), r, 6, k)
     ELSE <<>>)

SupplierData(r, dist) ==
    LET cats == Expand(dist, <<"small", "medium", "large">>)
    IN  [k \in 1 .. Len(cats) |->
            [id |-> MakeId("S", k),
             name |-> "Supplier_" \o NumStr(k),
             location |-> Choice(LOCATIONS, Hash(r, 4, k, 5)),
             reliability |-> Uniform(RELIABILITY_RANGE, Hash(r, 4, k, 6)),
             size |-> RandInt(SUPPLIER_SIZES[cats[k]].range, Hash(r, 4, k, 0)),
             size_category |-> cats[k],
             supplied_part_types |-> SuppliedTypes(r, k)]]

GenerateSuppliers ==
    /\ pc = "suppliers"
    /\ LET data == SupplierData(rng, node_counts.supplier_distribution)
       IN  /\ suppliers' = data
           /\ G' = AddNodes(G, data, "supplier")
           /\ operations_log' = operations_log \o CreateOps(data, "SUPPLIERS", timestamp)
    /\ pc' = "warehouses"
    /\ rng' = NextRng(rng)
    /\ UNCHANGED first_run
    /\ UNCHANGED <<total_variable_nodes, base_periods, node_counts, TEMPORAL_VARIATION,
                   business_group, product_families, product_offerings, warehouses,
                   facilities, parts, temporal_graphs, timestamp, current_period, returned, drawn_inventory, calls>>

WarehouseData(r, dist) ==
    LET types == Expand(dist, <<"supplier", "subassembly", "lam">>)
    IN  [k \in 1 .. Len(types) |->
            LET size_category == Choice(<<"small", "medium", "large">>, Hash(r, 7, k, 0))
            IN  [id |-> MakeId("W", k),
                 name |-> "Warehouse_" \o NumStr(k),
                 type |-> types[k],
                 location |-> Choice(LOCATIONS, Hash(r, 7, k, 1)),
                 size_category |-> size_category,
                 max_capacity |-> RandInt(WAREHOUSE_SIZES[size_category].capacity,
                                          Hash(r, 7, k, 2)),
                 current_capacity |-> 0,
                 safety_stock |-> RandInt(INVENTORY_RANGE, Hash(r, 7, k, 3)),
                 max_parts |-> WAREHOUSE_SIZES[size_category].max_parts]]

\* The elements of `data` whose type is ty, in order: self.<kind>[ty].
OfType(data, ty) == SelectSeq(data, LAMBDA d : d.type = ty)

GenerateWarehouses ==
    /\ pc = "warehouses"
    /\ LET data == WarehouseData(rng, node_counts.warehouse_distribution)
       IN  /\ warehouses' = [ty \in {"supplier", "subassembly", "lam"} |-> OfType(data, ty)]
           /\ G' = AddNodes(G, data, "warehouse")
           /\ operations_log' = operations_log \o CreateOps(data, "WAREHOUSE", timestamp)
    /\ pc' = "facilities"
    /\ rng' = NextRng(rng)
    /\ UNCHANGED first_run
    /\ UNCHANGED <<total_variable_nodes, base_periods, node_counts, TEMPORAL_VARIATION,
                   business_group, product_families, product_offerings, suppliers,
                   facilities, parts, temporal_graphs, timestamp, current_period, returned, drawn_inventory, calls>>

FacilityData(r, dist) ==
    LET types == Expand(dist, <<"external", "lam">>)
    IN  [k \in 1 .. Len(types) |->
            [id |-> MakeId("F", k),
             name |-> "Facility_" \o NumStr(k),
             type |-> types[k],
             location |-> Choice(LOCATIONS, Hash(r, 8, k, 0)),
             max_capacity |-> RandInt(CAPACITY_RANGE, Hash(r, 8, k, 1)),
             operating_cost |-> Uniform(COST_RANGE, Hash(r, 8, k, 2))]]

GenerateFacilities ==
    /\ pc = "facilities"
    /\ LET data == FacilityData(rng, node_counts.facility_distribution)
       IN  /\ facilities' = [ty \in {"external", "lam"} |-> OfType(data, ty)]
           /\ G' = AddNodes(G, data, "facility")
           /\ operations_log' = operations_log \o CreateOps(data, "FACILITY", timestamp)
    /\ pc' = "parts"
    /\ rng' = NextRng(rng)
    /\ UNCHANGED first_run
    /\ UNCHANGED <<total_variable_nodes, base_periods, node_counts, TEMPORAL_VARIATION,
                   business_group, product_families, product_offerings, suppliers,
                   warehouses, parts, temporal_graphs, timestamp, current_period, returned, drawn_inventory, calls>>

\* _generate_part_validity: <<valid_from, valid_till>>, in days since BASE_DATE
GeneratePartValidity(h) ==
    LET valid_from == BASE_DATE
        validity_months == RandInt(PART_VALIDITY_RANGE, h)
    IN  <<valid_from, valid_from + (30 * validity_months)>>

\* date.strftime('%Y-%m-%d')
Strftime(day) == <<"Y-m-d", day>>

PartData(r, dist) ==
    LET types == Expand(dist, <<"raw", "subassembly">>)
    IN  [k \in 1 .. Len(types) |->
            LET validity == GeneratePartValidity(Hash(r, 9, k, 0))
            IN  [id |-> MakeId("P", k),
                 name |-> "Part_" \o NumStr(k),
                 type |-> types[k],
                 subtype |-> Choice(PART_TYPES[types[k]], Hash(r, 9, k, 1)),
                 cost |-> Uniform(COST_RANGE, Hash(r, 9, k, 2)),
                 importance_factor |-> Uniform(IMPORTANCE_FACTOR_RANGE, Hash(r, 9, k, 3)),
                 valid_from |-> validity[1],
                 valid_till |-> validity[2]]]

CopyPartData(part_data) ==
    [part_data EXCEPT !.valid_from = Strftime(part_data.valid_from),
                      !.valid_till = Strftime(part_data.valid_till)]

GenerateParts ==
    /\ pc = "parts"
    /\ LET data == PartData(rng, node_counts.parts_distribution)
       IN  /\ parts' = [ty \in {"raw", "subassembly"} |-> OfType(data, ty)]
           /\ G' = AddNodes(G, data, "part")
           /\ operations_log' = operations_log
                  \o [k \in 1 .. Len(data) |->
                         NodeOperation("create", data[k].id, "PARTS",
                                       CopyPartData(data[k]), timestamp)]
    /\ pc' = "suppliers_to_warehouses"
    /\ rng' = NextRng(rng)
    /\ UNCHANGED first_run
    /\ UNCHANGED <<total_variable_nodes, base_periods, node_counts, TEMPORAL_VARIATION,
                   business_group, product_families, product_offerings, suppliers,
                   warehouses, facilities, temporal_graphs, timestamp, current_period, returned,
                   drawn_inventory, calls>>


(***************************************************************************)
(* The topology builder.  Each pass yields its writes in program order: a  *)
(* write is an add_edge or a node attribute assignment together with the   *)
(* operations it logs.                                                     *)
(***************************************************************************)
Reverse(seq) == [i \in 1 .. Len(seq) |-> seq[Len(seq) + 1 - i]]

\* A recorder that puts each new entry in front of those of the same pass.
LoggedByNewestFirst(ws) == Reverse(Flatten([k \in 1 .. Len(ws) |-> ws[k].log]))

\* The entries the writes of ws record, in the order of the recording calls.
LoggedBy(ws) == Flatten([k \in 1 .. Len(ws) |-> ws[k].log])

AnyOf(seq, Test(_)) == \E k \in 1 .. Len(seq) : Test(seq[k])

\* A wiring pass that connects each supplier to the first warehouse of the pool only.
SupplierConnectionsToFirst(r, k, supplier, pool, site, ts) ==
    LET selected_warehouses == SubSeq(pool, 1, Min(1, Len(pool)))
    IN  [j \in 1 .. Len(selected_warehouses) |->
            LET edge_data ==
                    [transportation_cost |->
                         Uniform(TRANSPORTATION_COST_RANGE, Hash(r, site + 1, k, j)),
                     lead_time |->
                         Uniform(TRANSPORTATION_TIME_RANGE, Hash(r, site + 2, k, j))]
            IN  EdgeWrite(supplier.id, selected_warehouses[j].id, edge_data,
                          <<EdgeOperation("create", supplier.id, selected_warehouses[j].id,
                                          edge_data, "SUPPLIERS_WAREHOUSE", ts)>>)]

\* One supplier's connections to the warehouses of `pool`.
SupplierConnections(r, k, supplier, pool, site, ts) ==
    LET max_connections == SUPPLIER_SIZES[supplier.size_category].max_connections
        num_connections == Min(max_connections, Len(pool))
        selected_warehouses == Sample(pool, num_connections, r, site, k)
    IN  [j \in 1 .. Len(selected_warehouses) |->
            LET edge_data ==
                    [transportation_cost |->
                         Uniform(TRANSPORTATION_COST_RANGE, Hash(r, site + 1, k, j)),
                     lead_time |->
                         Uniform(TRANSPORTATION_TIME_RANGE, Hash(r, site + 2, k, j))]
            IN  EdgeWrite(supplier.id, selected_warehouses[j].id, edge_data,
                          <<EdgeOperation("create", supplier.id, selected_warehouses[j].id,
                                          edge_data, "SUPPLIERS_WAREHOUSE", ts)>>)]

SuppliersToWarehouses(r, sups, whs, ts) ==
    Flatten([k \in 1 .. Len(sups) |->
        (IF AnyOf(sups[k].supplied_part_types,
                LAMBDA t : AnyOf(PART_TYPES.raw, LAMBDA x : x = t))
         THEN SupplierConnections(r, k, sups[k], whs.supplier, 10, ts)
         ELSE <<>>)
        \o
        (IF AnyOf(sups[k].supplied_part_types,
                LAMBDA t : AnyOf(PART_TYPES.subassembly, LAMBDA x : x = t))
         THEN SupplierConnections(r, k, sups[k], whs.subassembly, 13, ts)
         ELSE <<>>)])

ConnectSuppliersToWarehouses ==
    /\ pc = "suppliers_to_warehouses"
    /\ LET ws == SuppliersToWarehouses(rng, suppliers, warehouses, timestamp)
       IN  /\ G' = ApplyWrites(G, ws)
           /\ operations_log' = operations_log \o LoggedBy(ws)
    /\ pc' = "warehouses_to_parts"
    /\ rng' = NextRng(rng)
    /\ UNCHANGED first_run
    /\ UNCHANGED <<total_variable_nodes, base_periods, node_counts, TEMPORAL_VARIATION,
                   business_group, product_families, product_offerings, suppliers,
                   warehouses, facilities, parts, temporal_graphs, timestamp,
                   current_period, returned, drawn_inventory, calls>>

\* A wiring pass that assigns every drawn inventory whole, whatever capacity remains.
MaxPossibleInventoryUnclipped(draw, available_capacity, current_inventory) == draw

\* A wiring pass that assigns all the capacity that remains, whatever was drawn.
MaxPossibleInventoryRemaining(draw, available_capacity, current_inventory) ==
    available_capacity - current_inventory

\* max_possible_inventory of _connect_warehouses_to_parts
MaxPossibleInventory(draw, available_capacity, current_inventory) ==
    Min(draw, available_capacity - current_inventory)

RECURSIVE WarehouseParts(_, _, _, _, _, _, _)
\* The inner loop of _connect_warehouses_to_parts from the j-th selected part on,
\* with current_inventory accumulated so far.
WarehouseParts(r, w, warehouse, selected_parts, j, current_inventory, ts) ==
    IF j > Len(selected_parts) THEN <<>>
    ELSE LET part == selected_parts[j]
             draw == RandInt(INVENTORY_RANGE, Hash(r, 16, w, j))
             max_possible_inventory ==
                 MaxPossibleInventory(draw, warehouse.max_capacity, current_inventory)
         IN  IF max_possible_inventory <= 0
             THEN WarehouseParts(r, w, warehouse, selected_parts, j + 1,
                                 current_inventory, ts)
             ELSE LET inventory_level == max_possible_inventory
                      new_inventory == current_inventory + inventory_level
                      edge_data == [inventory_level |-> inventory_level,
                                    storage_cost |-> Uniform(COST_RANGE, Hash(r, 17, w, j))]
                      changes == [current_capacity |-> new_inventory]
                  IN  <<EdgeWrite(warehouse.id, part.id, edge_data,
                                  <<EdgeOperation("create", warehouse.id, part.id, edge_data,
                                                  "WAREHOUSE_PARTS", ts)>>)
                            @@ [draw |-> draw],
                        NodeWrite(warehouse.id, changes,
                                  <<NodeOperation("update", warehouse.id, "WAREHOUSE",
                                                  changes, ts)>>)>>
                      \o WarehouseParts(r, w, warehouse, selected_parts, j + 1,
                                        new_inventory, ts)

AllOf(byType, order) == Flatten([c \in 1 .. Len(order) |-> byType[order[c]]])

\* A wiring pass in which every warehouse, whatever its type, draws from the raw parts.
WarehousesToPartsFromRaw(r, whs, pts, ts) ==
    LET all == AllOf(whs, <<"supplier", "subassembly", "lam">>)
    IN  Flatten([w \in 1 .. Len(all) |->
            LET possible_parts == pts.raw
                selected_parts == Sample(possible_parts,
                                         Min(all[w].max_parts, Len(possible_parts)),
                                         r, 15, w)
            IN  WarehouseParts(r, w, all[w], selected_parts, 1, 0, ts)])

WarehousesToParts(r, whs, pts, ts) ==
    LET all == AllOf(whs, <<"supplier", "subassembly", "lam">>)
    IN  Flatten([w \in 1 .. Len(all) |->
            LET possible_parts == IF all[w].type = "supplier" THEN pts.raw
                                  ELSE pts.subassembly
                selected_parts == Sample(possible_parts,
                                         Min(all[w].max_parts, Len(possible_parts)),
                                         r, 15, w)
            IN  WarehouseParts(r, w, all[w], selected_parts, 1, 0, ts)])

\* For each edge the writes ws create, the value random.randint(*INVENTORY_RANGE)
\* yielded for it.
DrawnBy(ws) ==
    LET created == SelectSeq(ws, LAMBDA w : w.edge)
    IN  [e \in {<<created[k].u, created[k].v>> : k \in 1 .. Len(created)} |->
            created[CHOOSE k \in 1 .. Len(created) : <<created[k].u, created[k].v>> = e].draw]

ConnectWarehousesToParts ==
    /\ pc = "warehouses_to_parts"
    /\ LET ws == WarehousesToParts(rng, warehouses, parts, timestamp)
       IN  /\ G' = ApplyWrites(G, ws)
           /\ operations_log' = operations_log \o LoggedBy(ws)
           /\ drawn_inventory' = DrawnBy(ws)
    /\ pc' = "parts_to_facilities"
    /\ rng' = NextRng(rng)
    /\ UNCHANGED first_run
    /\ UNCHANGED <<total_variable_nodes, base_periods, node_counts, TEMPORAL_VARIATION,
                   business_group, product_families, product_offerings, suppliers,
                   warehouses, facilities, parts, temporal_graphs, timestamp,
                   current_period, returned, calls>>


\* The edges from each part of `sel` to the facility (PARTS_FACILITY).
PartsIntoFacility(r, site, f, facility, sel, ts) ==
    [j \in 1 .. Len(sel) |->
        LET edge_data ==
                [quantity |-> RandInt(QUANTITY_RANGE, Hash(r, site, f, 4 * j)),
                 distance |-> RandInt(DISTANCE_RANGE, Hash(r, site, f, 4 * j + 1)),
                 transport_cost |->
                     Uniform(TRANSPORTATION_COST_RANGE, Hash(r, site, f, 4 * j + 2)),
                 lead_time |->
                     Uniform(TRANSPORTATION_TIME_RANGE, Hash(r, site, f, 4 * j + 3))]
        IN  EdgeWrite(sel[j].id, facility.id, edge_data,
                      <<EdgeOperation("create", sel[j].id, facility.id, edge_data,
                                      "PARTS_FACILITY", ts)>>)]

\* The edges from the facility to each part of `sel` (FACILITY_PARTS).
FacilityIntoParts(r, site, f, facility, sel, ts) ==
    [j \in 1 .. Len(sel) |->
        LET edge_data ==
                [production_cost |-> Uniform(COST_RANGE, Hash(r, site, f, 4 * j)),
                 lead_time |->
                     Uniform(TRANSPORTATION_TIME_RANGE, Hash(r, site, f, 4 * j + 1)),
                 quantity |-> RandInt(QUANTITY_RANGE, Hash(r, site, f, 4 * j + 2))]
        IN  EdgeWrite(facility.id, sel[j].id, edge_data,
                      <<EdgeOperation("create", facility.id, sel[j].id, edge_data,
                                      "FACILITY_PARTS", ts)>>)]

\* One iteration of the loop over the external facilities: its writes, and
\* whether it ran to its end (random.sample raises ValueError when asked for
\* more elements than the population holds).
ExternalFacility(r, f, facility, pts, ts) ==
    LET n_raw == RandInt(<<2, Max(3, Len(pts.raw) \div 2)>>, Hash(r, 20, f, 0))
        n_sub == RandInt(<<1, 3>>, Hash(r, 20, f, 1))
    IN  IF n_raw > Len(pts.raw) THEN [ws |-> <<>>, ok |-> FALSE]
        ELSE LET raw_ws == PartsIntoFacility(r, 22, f, facility,
                                             Sample(pts.raw, n_raw, r, 21, f), ts)
             IN  IF n_sub > Len(pts.subassembly) THEN [ws |-> raw_ws, ok |-> FALSE]
                 ELSE [ws |-> raw_ws \o FacilityIntoParts(r, 24, f, facility,
                                            Sample(pts.subassembly, n_sub, r, 23, f), ts),
                       ok |-> TRUE]

\* One iteration of the loop over the lam facilities.
LamFacility(r, f, facility, pts, ts) ==
    LET n_sub == RandInt(<<2, Max(3, Len(pts.subassembly) \div 2)>>, Hash(r, 25, f, 0))
    IN  IF n_sub > Len(pts.subassembly) THEN [ws |-> <<>>, ok |-> FALSE]
        ELSE [ws |-> PartsIntoFacility(r, 27, f, facility,
                                       Sample(pts.subassembly, n_sub, r, 26, f), ts),
              ok |-> TRUE]

\* The iterations of a loop run up to and including the first one that raises.
UpToFailure(runs) ==
    LET bad == {k \in 1 .. Len(runs) : ~runs[k].ok}
        last == IF bad = {} THEN Len(runs)
                ELSE CHOOSE k \in bad : \A m \in bad : k <= m
    IN  [ws |-> Flatten([k \in 1 .. last |-> runs[k].ws]), ok |-> bad = {}]

PartsToFacilities(r, facs, pts, ts) ==
    LET ext == UpToFailure([f \in 1 .. Len(facs.external) |->
                               ExternalFacility(r, f, facs.external[f], pts, ts)])
    IN  IF ~ext.ok THEN ext
        ELSE LET lam == UpToFailure([f \in 1 .. Len(facs.lam) |->
                                        LamFacility(r, f, facs.lam[f], pts, ts)])
             IN  [ws |-> ext.ws \o lam.ws, ok |-> lam.ok]

ConnectPartsToFacilities ==
    /\ pc = "parts_to_facilities"
    /\ LET run == PartsToFacilities(rng, facilities, parts, timestamp)
       IN  /\ G' = ApplyWrites(G, run.ws)
           /\ operations_log' = operations_log \o LoggedBy(run.ws)
           /\ pc' = IF run.ok THEN "facilities_to_products" ELSE "failed"
    /\ rng' = NextRng(rng)
    /\ UNCHANGED first_run
    /\ UNCHANGED <<total_variable_nodes, base_periods, node_counts, TEMPORAL_VARIATION,
                   business_group, product_families, product_offerings, suppliers,
                   warehouses, facilities, parts, temporal_graphs, timestamp,
                   current_period, returned, drawn_inventory, calls>>

\* A wiring pass that stores each produced offering in the first lam warehouse only.
LamFacilityProductsInFirstWarehouse(r, f, facility, products, lam_warehouses, ts) ==
    Flatten([p \in 1 .. Len(products) |->
        LET edge_data ==
                [product_cost |-> Uniform(COST_RANGE, Hash(r, 31, f, 4 * p)),
                 lead_time |->
                     Uniform(TRANSPORTATION_TIME_RANGE, Hash(r, 31, f, 4 * p + 1)),
                 quantity |-> RandInt(QUANTITY_RANGE, Hash(r, 31, f, 4 * p + 2))]
        IN  <<EdgeWrite(facility.id, products[p].id, edge_data,
                        <<EdgeOperation("create", facility.id, products[p].id, edge_data,
                                        "FACILITY_PRODUCT_OFFERING", ts)>>)>>
            \o
            [w \in 1 .. Min(1, Len(lam_warehouses)) |->
                LET storage ==
                        [inventory_level |->
                             RandInt(INVENTORY_RANGE, Hash(r, 32, 32 * f + p, 2 * w)),
                         storage_cost |->
                             Uniform(COST_RANGE, Hash(r, 32, 32 * f + p, 2 * w + 1))]
                IN  EdgeWrite(products[p].id, lam_warehouses[w].id, storage,
                              <<EdgeOperation("create", products[p].id,
                                              lam_warehouses[w].id, storage,
                                              "PRODUCT_OFFERING_WAREHOUSE", ts)>>)]])

\* One lam facility's product edges, each followed by the product's edges to
\* every lam warehouse.
LamFacilityProducts(r, f, facility, products, lam_warehouses, ts) ==
    Flatten([p \in 1 .. Len(products) |->
        LET edge_data ==
                [product_cost |-> Uniform(COST_RANGE, Hash(r, 31, f, 4 * p)),
                 lead_time |->
                     Uniform(TRANSPORTATION_TIME_RANGE, Hash(r, 31, f, 4 * p + 1)),
                 quantity |-> RandInt(QUANTITY_RANGE, Hash(r, 31, f, 4 * p + 2))]
        IN  <<EdgeWrite(facility.id, products[p].id, edge_data,
                        <<EdgeOperation("create", facility.id, products[p].id, edge_data,
                                        "FACILITY_PRODUCT_OFFERING", ts)>>)>>
            \o
            [w \in 1 .. Len(lam_warehouses) |->
                LET storage ==
                        [inventory_level |->
                             RandInt(INVENTORY_RANGE, Hash(r, 32, 32 * f + p, 2 * w)),
                         storage_cost |->
                             Uniform(COST_RANGE, Hash(r, 32, 32 * f + p, 2 * w + 1))]
                IN  EdgeWrite(products[p].id, lam_warehouses[w].id, storage,
                              <<EdgeOperation("create", products[p].id,
                                              lam_warehouses[w].id, storage,
                                              "PRODUCT_OFFERING_WAREHOUSE", ts)>>)]])

FacilitiesToProducts(r, facs, offerings, whs, ts) ==
    UpToFailure([f \in 1 .. Len(facs.lam) |->
        LET n == RandInt(<<2, Max(3, Len(offerings) \div 2)>>, Hash(r, 30, f, 0))
        IN  IF n > Len(offerings) THEN [ws |-> <<>>, ok |-> FALSE]
            ELSE [ws |-> LamFacilityProducts(r, f, facs.lam[f],
                                             Sample(offerings, n, r, 33, f), whs.lam, ts),
                  ok |-> TRUE]])

ConnectFacilitiesToProducts ==
    /\ pc = "facilities_to_products"
    /\ LET run == FacilitiesToProducts(rng, facilities, product_offerings, warehouses,
                                       timestamp)
       IN  /\ G' = ApplyWrites(G, run.ws)
           /\ operations_log' = operations_log \o LoggedBy(run.ws)
           /\ pc' = IF run.ok THEN "hierarchy" ELSE "failed"
    /\ rng' = NextRng(rng)
    /\ UNCHANGED first_run
    /\ UNCHANGED <<total_variable_nodes, base_periods, node_counts, TEMPORAL_VARIATION,
                   business_group, product_families, product_offerings, suppliers,
                   warehouses, facilities, parts, temporal_graphs, timestamp,
                   current_period, returned, drawn_inventory, calls>>

\* A hierarchy in which every family is the parent of every offering.
HierarchyOverAllOfferings(families, offerings, ts) ==
    [f \in 1 .. Len(families) |->
        EdgeWrite("BG_001", families[f].id, [type |-> "hierarchy"],
                  <<EdgeOperation("create", "BG_001", families[f].id, <<>>,
                                  "BUSINESS_GROUP_PROUDUCT_FAMILY", ts)>>)]
    \o
    Flatten([f \in 1 .. Len(families) |->
        [k \in 1 .. Len(offerings) |->
            EdgeWrite(families[f].id, offerings[k].id, [type |-> "hierarchy"],
                      <<EdgeOperation("create", families[f].id, offerings[k].id,
                                      <<>>, "PRODUCT_FAMILY_PRODUCT_OFFERING", ts)>>)]])

Hierarchy(families, offerings, ts) ==
    [f \in 1 .. Len(families) |->
        EdgeWrite("BG_001", families[f].id, [type |-> "hierarchy"],
                  <<EdgeOperation("create", "BG_001", families[f].id, <<>>,
                                  "BUSINESS_GROUP_PROUDUCT_FAMILY", ts)>>)]
    \o
    Flatten([f \in 1 .. Len(families) |->
        LET family_offerings ==
                SelectSeq(offerings,
                          LAMBDA po : AnyOf(PRODUCT_OFFERINGS[families[f].name],
                                            LAMBDA x : x = po.name))
        IN  [k \in 1 .. Len(family_offerings) |->
                EdgeWrite(families[f].id, family_offerings[k].id, [type |-> "hierarchy"],
                          <<EdgeOperation("create", families[f].id, family_offerings[k].id,
                                          <<>>, "PRODUCT_FAMILY_PRODUCT_OFFERING", ts)>>)]])

ConnectHierarchy ==
    /\ pc = "hierarchy"
    /\ LET ws == Hierarchy(product_families, product_offerings, timestamp)
       IN  /\ G' = ApplyWrites(G, ws)
           /\ operations_log' = operations_log \o LoggedBy(ws)
    /\ pc' = "distances"
    /\ UNCHANGED first_run
    /\ UNCHANGED <<total_variable_nodes, base_periods, node_counts, rng,
                   TEMPORAL_VARIATION, business_group, product_families,
                   product_offerings, suppliers, warehouses, facilities, parts,
                   temporal_graphs, timestamp, current_period, returned, drawn_inventory, calls>>

\* The 'distances' dictionary _calculate_distances leaves on a warehouse node.
Distances(r, w, warehouse, all_facilities) ==
    [id \in {all_facilities[f].id : f \in 1 .. Len(all_facilities)} |->
        LET f == CHOOSE k \in 1 .. Len(all_facilities) : all_facilities[k].id = id
        IN  IF warehouse.location = all_facilities[f].location
            THEN RandInt(<<10, 50>>, Hash(r, 35, w, f))
            ELSE RandInt(DISTANCE_RANGE, Hash(r, 35, w, f))]

CalculateDistances ==
    /\ pc = "distances"
    /\ LET all_w == AllOf(warehouses, <<"supplier", "subassembly", "lam">>)
           all_f == AllOf(facilities, <<"external", "lam">>)
       IN  G' = IF all_f = <<>> THEN G
                ELSE ApplyWrites(G, [w \in 1 .. Len(all_w) |->
                         NodeWrite(all_w[w].id,
                                   [distances |-> Distances(rng, w, all_w[w], all_f)],
                                   <<>>)])
    /\ pc' = "temporal"
    /\ rng' = NextRng(rng)
    /\ UNCHANGED first_run
    /\ UNCHANGED <<total_variable_nodes, base_periods, node_counts, TEMPORAL_VARIATION,
                   business_group, product_families, product_offerings, suppliers,
                   warehouses, facilities, parts, temporal_graphs, operations_log,
                   timestamp, current_period, returned, drawn_inventory, calls>>


(***************************************************************************)
(* The temporal evolution engine.                                          *)
(***************************************************************************)
PeriodDate(time_period) == BASE_DATE + (30 * time_period)

\* A window that closes the day before valid_till.
InValidityWindowOpenEnded(part, current_date) ==
    part.valid_from <= current_date /\ current_date < part.valid_till

\* A window that never closes.
InValidityWindowNeverClosing(part, current_date) == part.valid_from <= current_date

InValidityWindow(part, current_date) ==
    part.valid_from <= current_date /\ current_date <= part.valid_till

\* The writes of one iteration of the loop of generate_temporal_data on
\* period_graph, for period time_period, logged with timestamp ts.
TemporalPeriod(r, tv, period_graph, time_period, ts, bg, families, offerings, whs, sups, pts) ==
    LET current_date == PeriodDate(time_period)
        all_w == AllOf(whs, <<"supplier", "subassembly", "lam">>)
        all_p == AllOf(pts, <<"raw", "subassembly">>)
        edges == EdgesInOrder(period_graph)
        bg_revenue == GenerateTemporalValue(tv, bg.revenue, "revenue", time_period,
                                            Hash(r, 40, 0, time_period))
    IN  <<NodeWrite(bg.id, [revenue |-> bg_revenue],
                    <<NodeOperation("update", bg.id, "BUSINESS_GROUP",
                                    [revenue |-> bg_revenue], ts)>>)>>
        \o
        [k \in 1 .. Len(families) |->
            LET family_revenue ==
                    GenerateTemporalValue(tv, families[k].revenue, "revenue", time_period,
                                          Hash(r, 41, k, time_period))
            IN  NodeWrite(families[k].id, [revenue |-> family_revenue],
                          <<NodeOperation("update", families[k].id, "PRODUCT_FAMILY",
                                          [revenue |-> family_revenue], ts)>>)]
        \o
        [k \in 1 .. Len(offerings) |->
            LET new_cost == GenerateTemporalValue(tv, offerings[k].cost, "cost",
                                                  time_period, Hash(r, 42, k, time_period))
                new_demand == GenerateTemporalValue(tv, offerings[k].demand, "demand",
                                                    time_period, Hash(r, 43, k, time_period))
            IN  NodeWrite(offerings[k].id, [cost |-> new_cost, demand |-> new_demand],
                          <<NodeOperation("update", offerings[k].id, "PRODUCT_OFFERING",
                                          [demand |-> new_demand, cost |-> new_cost], ts)>>)]
        \o
        [k \in 1 .. Len(all_w) |->
            LET new_capacity ==
                    GenerateTemporalValue(tv, all_w[k].current_capacity, "capacity",
                                          time_period, Hash(r, 44, k, time_period))
            IN  NodeWrite(all_w[k].id, [current_capacity |-> new_capacity],
                          <<NodeOperation("update", all_w[k].id, "WAREHOUSE",
                                          [capacity |-> new_capacity], ts)>>)]
        \o
        [k \in 1 .. Len(sups) |->
            LET new_reliability ==
                    GenerateTemporalValue(tv, sups[k].reliability, "reliability",
                                          time_period, Hash(r, 45, k, time_period))
            IN  NodeWrite(sups[k].id, [reliability |-> new_reliability],
                          <<NodeOperation("update", sups[k].id, "SUPPLIERS",
                                          [reliability |-> new_reliability], ts)>>)]
        \o
        Flatten([k \in 1 .. Len(all_p) |->
            IF InValidityWindow(all_p[k], current_date)
            THEN LET new_cost == GenerateTemporalValue(tv, all_p[k].cost, "cost",
                                                       time_period,
                                                       Hash(r, 46, k, time_period))
                 IN  <<NodeWrite(all_p[k].id, [cost |-> new_cost],
                                 <<NodeOperation("update", all_p[k].id, "PARTS",
                                                 [cost |-> new_cost], ts)>>)>>
            ELSE <<>>])
        \o
        Flatten([e \in 1 .. Len(edges) |->
            LET u == edges[e][1]
                v == edges[e][2]
                attrs == period_graph.edge[edges[e]]
            IN  (IF "transportation_cost" \in DOMAIN attrs
                 THEN LET new_transport_cost ==
                              GenerateTemporalValue(tv, attrs.transportation_cost,
                                                    "transportation_cost", time_period,
                                                    Hash(r, 47, e, time_period))
                      IN  <<EdgeWrite(u, v, [transportation_cost |-> new_transport_cost],
                                <<EdgeOperation("update", u, v,
                                      [transportation_cost |-> new_transport_cost],
                                      "SUPPLIERS_WAREHOUSE", ts)>>)>>
                 ELSE <<>>)
                \o
                (IF "inventory_level" \in DOMAIN attrs
                 THEN LET new_inventory ==
                              GenerateTemporalValue(tv, attrs.inventory_level, "inventory",
                                                    time_period,
                                                    Hash(r, 48, e, time_period))
                      IN  <<EdgeWrite(u, v, [inventory_level |-> new_inventory],
                                <<EdgeOperation("update", u, v,
                                      [inventory_level |-> new_inventory],
                                      "WAREHOUSE_PARTS", ts)>>)>>
                 ELSE <<>>)])

\* The snapshots when the writes ws are made on the graph stored under `key`
\* itself, which is then stored under new_key as well: one graph under two keys.
StoredAlias(stored, key, new_key, ws) ==
    [k \in DOMAIN stored \cup {new_key} |->
        IF k \in {key, new_key} THEN ApplyWrites(stored[key], ws) ELSE stored[k]]

\* graph = stored[key].copy(), the writes ws on that copy, stored[new_key] = graph
StoredCopy(stored, key, new_key, ws) ==
    (new_key :> ApplyWrites(stored[key], ws)) @@ stored

\* generate_temporal_data: the snapshots it stores into `stored`, what it logs
\* and the timestamp it leaves.
GenerateTemporalData(r, tv, g, stored, periods, ts, bg, families, offerings, whs, sups, pts) ==
    LET base_graph == g
        last == Max(periods - 1, 0)
        writes == [t \in 1 .. last |->
                      TemporalPeriod(r, tv, base_graph, t, ts + t, bg, families, offerings,
                                     whs, sups, pts)]
        new[t \in 0 .. last] ==
            IF t = 0 THEN (0 :> base_graph) @@ stored
            ELSE StoredCopy(new[t - 1], 0, t, writes[t])
    IN  [graphs |-> new[last],
         log |-> Flatten([t \in 1 .. last |-> LoggedBy(writes[t])]),
         timestamp |-> ts + last]


\* _update_product_attributes
UpdateProductAttributes(r, tv, time_period, offerings) ==
    [k \in 1 .. Len(offerings) |->
        LET new_cost == GenerateTemporalValue(tv, offerings[k].cost, "cost", time_period,
                                              Hash(r, 42, k, time_period))
            new_demand == GenerateTemporalValue(tv, offerings[k].demand, "demand",
                                                time_period, Hash(r, 43, k, time_period))
        IN  NodeWrite(offerings[k].id, [cost |-> new_cost, demand |-> new_demand], <<>>)]

\* _update_warehouse_attributes
UpdateWarehouseAttributes(r, tv, time_period, whs) ==
    LET all_w == AllOf(whs, <<"supplier", "subassembly", "lam">>)
    IN  [k \in 1 .. Len(all_w) |->
            NodeWrite(all_w[k].id,
                      [current_capacity |->
                           GenerateTemporalValue(tv, all_w[k].current_capacity, "capacity",
                                                 time_period, Hash(r, 44, k, time_period))],
                      <<>>)]

\* _update_supplier_attributes
UpdateSupplierAttributes(r, tv, time_period, sups) ==
    [k \in 1 .. Len(sups) |->
        NodeWrite(sups[k].id,
                  [reliability |->
                       GenerateTemporalValue(tv, sups[k].reliability, "reliability",
                                             time_period, Hash(r, 45, k, time_period))],
                  <<>>)]

\* _update_part_attributes
UpdatePartAttributes(r, tv, time_period, pts) ==
    LET current_date == PeriodDate(time_period)
        all_p == AllOf(pts, <<"raw", "subassembly">>)
    IN  Flatten([k \in 1 .. Len(all_p) |->
            IF InValidityWindow(all_p[k], current_date)
            THEN <<NodeWrite(all_p[k].id,
                             [cost |-> GenerateTemporalValue(tv, all_p[k].cost, "cost",
                                           time_period, Hash(r, 46, k, time_period))],
                             <<>>)>>
            ELSE <<>>])

\* _update_edge_attributes
UpdateEdgeAttributes(r, tv, graph, time_period) ==
    LET edges == EdgesInOrder(graph)
    IN  Flatten([e \in 1 .. Len(edges) |->
            LET attrs == graph.edge[edges[e]]
            IN  (IF "transportation_cost" \in DOMAIN attrs
                 THEN <<EdgeWrite(edges[e][1], edges[e][2],
                            [transportation_cost |->
                                 GenerateTemporalValue(tv, attrs.transportation_cost,
                                     "transportation_cost", time_period,
                                     Hash(r, 47, e, time_period))],
                            <<>>)>>
                 ELSE <<>>)
                \o
                (IF "inventory_level" \in DOMAIN attrs
                 THEN <<EdgeWrite(edges[e][1], edges[e][2],
                            [inventory_level |->
                                 GenerateTemporalValue(tv, attrs.inventory_level,
                                     "inventory", time_period,
                                     Hash(r, 48, e, time_period))],
                            <<>>)>>
                 ELSE <<>>)])

\* _update_period_attributes: the writes to `graph` for period time_period
UpdatePeriodAttributes(r, tv, graph, time_period, bg, families, offerings, whs, sups, pts) ==
    <<NodeWrite(bg.id,
                [revenue |-> GenerateTemporalValue(tv, bg.revenue, "revenue", time_period,
                                                   Hash(r, 40, 0, time_period))],
                <<>>)>>
    \o
    [k \in 1 .. Len(families) |->
        NodeWrite(families[k].id,
                  [revenue |-> GenerateTemporalValue(tv, families[k].revenue, "revenue",
                                   time_period, Hash(r, 41, k, time_period))],
                  <<>>)]
    \o UpdateProductAttributes(r, tv, time_period, offerings)
    \o UpdateWarehouseAttributes(r, tv, time_period, whs)
    \o UpdateSupplierAttributes(r, tv, time_period, sups)
    \o UpdatePartAttributes(r, tv, time_period, pts)
    \o UpdateEdgeAttributes(r, tv, graph, time_period)

\* min() in place of max(): the first stored period.
MaxKeyFirst(f) == CHOOSE k \in DOMAIN f : \A m \in DOMAIN f : k <= m

MaxKey(f) == CHOOSE k \in DOMAIN f : \A m \in DOMAIN f : m <= k

\* simulate_next_period: the stored snapshots after the call
SimulateNext(r, tv, stored, bg, families, offerings, whs, sups, pts) ==
    LET last_period == MaxKey(stored)
        next_period == last_period + 1
        base_graph == stored[last_period]
        ws == UpdatePeriodAttributes(r, tv, base_graph, next_period, bg, families,
                                     offerings, whs, sups, pts)
    IN  StoredCopy(stored, last_period, next_period, ws)


(***************************************************************************)
(* generate_data (its last step), simulate_next_period,                    *)
(* simulate_multiple_periods, regenerate_all_periods                       *)
(***************************************************************************)
GenerateDataTemporal ==
    /\ pc = "temporal"
    /\ LET run == GenerateTemporalData(rng, TEMPORAL_VARIATION, G, temporal_graphs,
                                       base_periods, timestamp, business_group,
                                       product_families, product_offerings, warehouses,
                                       suppliers, parts)
       IN  /\ temporal_graphs' = run.graphs
           /\ operations_log' = operations_log \o run.log
           /\ timestamp' = run.timestamp
    /\ pc' = "ready"
    /\ rng' = NextRng(rng)
    /\ UNCHANGED first_run
    /\ UNCHANGED <<total_variable_nodes, base_periods, node_counts, TEMPORAL_VARIATION,
                   business_group, product_families, product_offerings, suppliers,
                   warehouses, facilities, parts, G, current_period, returned,
                   drawn_inventory, calls>>

SimulateNextPeriod ==
    /\ pc = "ready"
    /\ calls < MaxCalls
    /\ temporal_graphs' = SimulateNext(rng, TEMPORAL_VARIATION, temporal_graphs,
                                       business_group, product_families,
                                       product_offerings, warehouses, suppliers, parts)
    /\ current_period' = MaxKey(temporal_graphs) + 1
    /\ returned' = MaxKey(temporal_graphs) + 1
    /\ rng' = NextRng(rng)
    /\ calls' = calls + 1
    /\ UNCHANGED first_run
    /\ UNCHANGED <<pc, total_variable_nodes, base_periods, node_counts,
                   TEMPORAL_VARIATION, business_group, product_families,
                   product_offerings, suppliers, warehouses, facilities, parts, G,
                   operations_log, timestamp, drawn_inventory>>

RECURSIVE SimulateTimes(_, _, _, _, _, _, _, _, _, _)
\* The loop of simulate_multiple_periods: the snapshots, the random source and
\* the list new_periods after n calls of simulate_next_period.
SimulateTimes(n, r, tv, stored, bg, families, offerings, whs, sups, pts) ==
    IF n = 0 THEN [graphs |-> stored, rng |-> r, new_periods |-> <<>>]
    ELSE LET after == SimulateNext(r, tv, stored, bg, families, offerings, whs, sups, pts)
             rest == SimulateTimes(n - 1, NextRng(r), tv, after, bg, families, offerings,
                                   whs, sups, pts)
         IN  [rest EXCEPT !.new_periods = <<MaxKey(after)>> \o rest.new_periods]

SimulateMultiplePeriods ==
    /\ pc = "ready"
    /\ \E num_periods \in 2 .. (MaxCalls - calls) :
          LET run == SimulateTimes(num_periods, rng, TEMPORAL_VARIATION, temporal_graphs,
                                   business_group, product_families, product_offerings,
                                   warehouses, suppliers, parts)
          IN  /\ temporal_graphs' = run.graphs
              /\ rng' = run.rng
              /\ returned' = run.new_periods
              /\ current_period' = MaxKey(run.graphs)
              /\ calls' = calls + num_periods
    /\ UNCHANGED first_run
    /\ UNCHANGED <<pc, total_variable_nodes, base_periods, node_counts,
                   TEMPORAL_VARIATION, business_group, product_families,
                   product_offerings, suppliers, warehouses, facilities, parts, G,
                   operations_log, timestamp, drawn_inventory>>

\* A regeneration that keeps the stored snapshots.
KeptGraphs == temporal_graphs

\* self.temporal_graphs = {}
ClearedGraphs == <<>>

RegenerateAllPeriods ==
    /\ pc = "ready"
    /\ calls < MaxCalls
    /\ LET run == GenerateTemporalData(rng, TEMPORAL_VARIATION, G, ClearedGraphs,
                                       base_periods,
                                       timestamp, business_group, product_families,
                                       product_offerings, warehouses, suppliers, parts)
       IN  /\ temporal_graphs' = run.graphs
           /\ operations_log' = operations_log \o run.log
           /\ timestamp' = run.timestamp
    /\ current_period' = 0
    /\ rng' = NextRng(rng)
    /\ calls' = calls + 1
    /\ UNCHANGED first_run
    /\ UNCHANGED <<pc, total_variable_nodes, base_periods, node_counts,
                   TEMPORAL_VARIATION, business_group, product_families,
                   product_offerings, suppliers, warehouses, facilities, parts, G,
                   returned, drawn_inventory>>

Next ==
    \/ Construct
    \/ GenerateBusinessHierarchy
    \/ GenerateSuppliers
    \/ GenerateWarehouses
    \/ GenerateFacilities
    \/ GenerateParts
    \/ ConnectSuppliersToWarehouses
    \/ ConnectWarehousesToParts
    \/ ConnectPartsToFacilities
    \/ ConnectFacilitiesToProducts
    \/ ConnectHierarchy
    \/ CalculateDistances
    \/ GenerateDataTemporal
    \/ SimulateNextPeriod
    \/ SimulateMultiplePeriods
    \/ RegenerateAllPeriods

Spec == Init /\ [][Next]_vars

\* The distribution planner alone, over every budget up to MaxBudget.
InitDist == InitOver(1 .. MaxBudget, {1}, {1}, {CHOOSE tv \in TemporalVariations : TRUE})

SpecDist == InitDist /\ [][Construct]_vars



\* generate_data alone, for every small budget and more seeds of the random
\* source.
InitGen ==
    InitOver(1 .. MaxSmallBudget, {2}, 1 .. GenSeeds, {CHOOSE tv \in TemporalVariations : TRUE})

NextGen ==
    \/ Construct
    \/ GenerateBusinessHierarchy
    \/ GenerateSuppliers
    \/ GenerateWarehouses
    \/ GenerateFacilities
    \/ GenerateParts
    \/ ConnectSuppliersToWarehouses
    \/ ConnectWarehousesToParts
    \/ ConnectPartsToFacilities
    \/ ConnectFacilitiesToProducts
    \/ ConnectHierarchy
    \/ CalculateDistances
    \/ GenerateDataTemporal

SpecGen == InitGen /\ [][NextGen]_vars

\* generate_data alone, for budgets that yield two and three lam-type warehouses
\* and lam facilities.
LamBudgets == {40, 60}

InitLam ==
    InitOver(LamBudgets, {1}, 1 .. GenSeeds, {CHOOSE tv \in TemporalVariations : TRUE})

SpecLam == InitLam /\ [][NextGen]_vars

(***************************************************************************)
(* SupplyChainManager (src/Revised_Generator_Surya/Supply_chain_manager.py) *)
(* on a generator whose generate_data has completed.                       *)
(***************************************************************************)

\* Breakpoints compared with < in place of <=.
DetermineSizeCategoryStrict(size_value) ==
    IF size_value < 300 THEN "small"
    ELSE IF size_value < 600 THEN "medium"
    ELSE "large"

\* _determine_size_category
DetermineSizeCategory(size_value) ==
    IF size_value <= 300 THEN "small"
    ELSE IF size_value <= 600 THEN "medium"
    ELSE "large"

\* The sizes a caller passes to add_supplier: the ends of the three ranges.
SupplierSizeInputs == {100, 300, 301, 600, 601, 1000}

\* [n for n in self.G.nodes if n.startswith('S_')]
SupplierIds(g) ==
    SelectSeq(g.node_ids, LAMBDA n : \E k \in 1 .. Len(g.node_ids) : n = MakeId("S", k))

\* _connect_new_supplier_to_warehouses
ConnectNewSupplierToWarehouses(r, supplier_data, supplier_warehouses) ==
    LET max_connections == SUPPLIER_SIZES[supplier_data.size_category].max_connections
        num_connections == Min(max_connections, Len(supplier_warehouses))
        selected_warehouses == Sample(supplier_warehouses, num_connections, r, 60, 0)
    IN  [j \in 1 .. Len(selected_warehouses) |->
            EdgeWrite(supplier_data.id, selected_warehouses[j].id,
                      [transportation_cost |->
                           Uniform(TRANSPORTATION_COST_RANGE, Hash(r, 61, 0, j)),
                       lead_time |->
                           Uniform(TRANSPORTATION_TIME_RANGE, Hash(r, 62, 0, j))],
                      <<>>)]

\* add_supplier(name, location, reliability, size)
AddSupplier ==
    /\ pc = "ready"
    /\ calls < MaxCalls
    /\ \E size \in SupplierSizeInputs :
          LET new_id == MakeId("S", Len(SupplierIds(G)) + 1)
              supplier_data ==
                  [id |-> new_id, name |-> "New Supplier", location |-> LOCATIONS[1],
                   reliability |-> 950, size |-> size,
                   size_category |-> DetermineSizeCategory(size),
                   node_type |-> "supplier"]
          IN  /\ G' = ApplyWrites(G, <<NodeWrite(new_id, supplier_data, <<>>)>>
                                       \o ConnectNewSupplierToWarehouses(
                                              rng, supplier_data, warehouses.supplier))
              /\ suppliers' = Append(suppliers, supplier_data)
              /\ returned' = new_id
    /\ rng' = NextRng(rng)
    /\ calls' = calls + 1
    /\ UNCHANGED first_run
    /\ UNCHANGED <<pc, total_variable_nodes, base_periods, node_counts,
                   TEMPORAL_VARIATION, business_group, product_families,
                   product_offerings, warehouses, facilities, parts, temporal_graphs,
                   operations_log, timestamp, current_period, drawn_inventory>>

\* generate_data followed by calls of the manager.
InitManager ==
    InitOver({20, 34}, {1}, 1 .. NumSeeds, {CHOOSE tv \in TemporalVariations : TRUE})

NextManager ==
    \/ Construct
    \/ GenerateBusinessHierarchy
    \/ GenerateSuppliers
    \/ GenerateWarehouses
    \/ GenerateFacilities
    \/ GenerateParts
    \/ ConnectSuppliersToWarehouses
    \/ ConnectWarehousesToParts
    \/ ConnectPartsToFacilities
    \/ ConnectFacilitiesToProducts
    \/ ConnectHierarchy
    \/ CalculateDistances
    \/ GenerateDataTemporal
    \/ AddSupplier

SpecManager == InitManager /\ [][NextManager]_vars

\* operations_log as an attribute of the class, shared by every generator.
SharedOperationsLog == operations_log

\* self.operations_log = [] of a newly constructed generator
NewOperationsLog == <<>>

\* A second, independent full run: once generate_data has completed, a new
\* generator is constructed with the same configuration and the random source
\* restarts the sequence of draws of the first run.
RunAgain ==
    /\ pc = "ready"
    /\ calls = 0
    /\ ~first_run.done
    /\ first_run' = [first_run EXCEPT !.done = TRUE, !.log = operations_log]
    /\ pc' = "new"
    /\ rng' = first_run.seed
    /\ node_counts' = None
    /\ business_group' = None
    /\ product_families' = <<>>
    /\ product_offerings' = <<>>
    /\ suppliers' = <<>>
    /\ warehouses' = [supplier |-> <<>>, subassembly |-> <<>>, lam |-> <<>>]
    /\ facilities' = [external |-> <<>>, lam |-> <<>>]
    /\ parts' = [raw |-> <<>>, subassembly |-> <<>>]
    /\ G' = EmptyGraph
    /\ temporal_graphs' = <<>>
    /\ operations_log' = NewOperationsLog
    /\ timestamp' = 0
    /\ current_period' = 0
    /\ returned' = None
    /\ drawn_inventory' = <<>>
    /\ UNCHANGED <<total_variable_nodes, base_periods, TEMPORAL_VARIATION, calls>>

\* Two full runs (construct, generate_data) one after the other.
NextTwin ==
    \/ Construct
    \/ GenerateBusinessHierarchy
    \/ GenerateSuppliers
    \/ GenerateWarehouses
    \/ GenerateFacilities
    \/ GenerateParts
    \/ ConnectSuppliersToWarehouses
    \/ ConnectWarehousesToParts
    \/ ConnectPartsToFacilities
    \/ ConnectFacilitiesToProducts
    \/ ConnectHierarchy
    \/ CalculateDistances
    \/ GenerateDataTemporal
    \/ RunAgain

SpecTwin == Init /\ [][NextTwin]_vars

(***************************************************************************)
(* Properties of the distribution planner, checked under SpecDist.         *)
(***************************************************************************)
\* floor(n * pct / 100) in exact arithmetic
FloorOfProduct(n, pct) == (n * pct) \div 100

SumOf(f) ==
    LET RECURSIVE Go(_)
        Go(S) == IF S = {} THEN 0
                 ELSE LET x == CHOOSE x \in S : TRUE IN f[x] + Go(S \ {x})
    IN  Go(DOMAIN f)

Planned == node_counts # None

\* C1: for every budget T >= 1 each category count is floor(ratio * T) and each
\* sub-category count is the floor of its category count times its sub-ratio.
C1_CountsAreFloors ==
    Planned =>
        LET T == total_variable_nodes
            c == node_counts
        IN  /\ c.parts = FloorOfProduct(T, 50)
            /\ c.suppliers = FloorOfProduct(T, 15)
            /\ c.warehouses = FloorOfProduct(T, 20)
            /\ c.facilities = FloorOfProduct(T, 15)
            /\ c.parts_distribution.raw = FloorOfProduct(c.parts, 60)
            /\ c.parts_distribution.subassembly = FloorOfProduct(c.parts, 40)
            /\ c.supplier_distribution.small = FloorOfProduct(c.suppliers, 40)
            /\ c.supplier_distribution.medium = FloorOfProduct(c.suppliers, 35)
            /\ c.supplier_distribution.large = FloorOfProduct(c.suppliers, 25)
            /\ c.warehouse_distribution.supplier = FloorOfProduct(c.warehouses, 40)
            /\ c.warehouse_distribution.subassembly = FloorOfProduct(c.warehouses, 35)
            /\ c.warehouse_distribution.lam = FloorOfProduct(c.warehouses, 25)
            /\ c.facility_distribution.external = FloorOfProduct(c.facilities, 60)
            /\ c.facility_distribution.lam = FloorOfProduct(c.facilities, 40)

\* C2: for every budget T >= 1 every count is >= 0, the four category counts sum
\* to at most T, and each category's sub-category counts sum to at most its count.
C2_TruncationOnlyLoses ==
    Planned =>
        LET c == node_counts
            NonNegative(dist) == \A k \in DOMAIN dist : dist[k] >= 0
        IN  /\ c.parts >= 0 /\ c.suppliers >= 0 /\ c.warehouses >= 0 /\ c.facilities >= 0
            /\ NonNegative(c.parts_distribution)
            /\ NonNegative(c.supplier_distribution)
            /\ NonNegative(c.warehouse_distribution)
            /\ NonNegative(c.facility_distribution)
            /\ c.parts + c.suppliers + c.warehouses + c.facilities <= total_variable_nodes
            /\ SumOf(c.parts_distribution) <= c.parts
            /\ SumOf(c.supplier_distribution) <= c.suppliers
            /\ SumOf(c.warehouse_distribution) <= c.warehouses
            /\ SumOf(c.facility_distribution) <= c.facilities

\* A planned budget where truncation loses nodes at both levels.
C2_NodesLost ==
    /\ Planned
    /\ node_counts.parts + node_counts.suppliers + node_counts.warehouses
           + node_counts.facilities < total_variable_nodes
    /\ SumOf(node_counts.supplier_distribution) < node_counts.suppliers
    /\ SumOf(node_counts.warehouse_distribution) < node_counts.warehouses

(***************************************************************************)
(* Properties of the generator, checked under Spec.                        *)
(***************************************************************************)
AllWarehouses == AllOf(warehouses, <<"supplier", "subassembly", "lam">>)

\* The graphs the generator holds: the period-0 graph and every stored snapshot.
HeldGraphs == {G} \cup {temporal_graphs[t] : t \in DOMAIN temporal_graphs}

\* C3: in every stored snapshot of every period, after any sequence of
\* generate_data, simulate_next_period and regenerate_all_periods, every
\* warehouse node has 0 <= current_capacity <= max_capacity.
C3_CapacityWithinBounds ==
    \A g \in HeldGraphs :
        \A k \in 1 .. Len(AllWarehouses) :
            LET id == AllWarehouses[k].id
            IN  id \in DOMAIN g.node =>
                    /\ 0 <= g.node[id].current_capacity
                    /\ g.node[id].current_capacity <= g.node[id].max_capacity

\* After a simulate or regenerate call, a warehouse that wiring filled exactly
\* to its max_capacity, with later snapshots stored.
C3_WarehouseFilledAndEvolved ==
    /\ pc = "ready"
    /\ calls >= 1
    /\ \E t \in DOMAIN temporal_graphs : t >= 1
    /\ \E k \in 1 .. Len(AllWarehouses) :
          LET n == temporal_graphs[0].node[AllWarehouses[k].id]
          IN  n.current_capacity = n.max_capacity

\* Whether _connect_warehouses_to_parts has run.
WarehousesWired ==
    pc \notin {"new", "constructed", "suppliers", "warehouses", "facilities", "parts",
               "suppliers_to_warehouses", "warehouses_to_parts"}

\* The warehouse-to-part edges of `warehouse`, in the order they were created.
PartEdgesOf(warehouse) ==
    SelectSeq(G.edge_ids, LAMBDA e : e[1] = warehouse.id /\ e \in DOMAIN drawn_inventory)

\* The inventory assigned by the first n of the edges es.
AssignedBy(es, n) ==
    LET F[k \in 0 .. n] == IF k = 0 THEN 0 ELSE F[k - 1] + G.edge[es[k]].inventory_level
    IN  F[n]

\* The number of parts _connect_warehouses_to_parts selects for `warehouse`.
SelectedFor(warehouse) ==
    Min(warehouse.max_parts,
        Len(IF warehouse.type = "supplier" THEN parts.raw ELSE parts.subassembly))

\* C4 as stated: an assignment whose drawn inventory would exceed the remaining
\* capacity is skipped, not clipped: no warehouse-to-part edge has an
\* inventory_level smaller than the value drawn for it.
C4_NeverClipped ==
    \A e \in DOMAIN drawn_inventory : G.edge[e].inventory_level >= drawn_inventory[e]

\* C4 amended: every warehouse-to-part edge carries the smaller of the value drawn
\* for it and the capacity that remained, which is positive; a selected part is
\* left without an edge only when no capacity remained.
C4_ClippedToRemaining ==
    WarehousesWired =>
        \A k \in 1 .. Len(AllWarehouses) :
            LET warehouse == AllWarehouses[k]
                es == PartEdgesOf(warehouse)
            IN  /\ \A i \in 1 .. Len(es) :
                      LET remaining == warehouse.max_capacity - AssignedBy(es, i - 1)
                      IN  /\ remaining > 0
                          /\ G.edge[es[i]].inventory_level
                                 = Min(drawn_inventory[es[i]], remaining)
                /\ Len(es) < SelectedFor(warehouse)
                       => AssignedBy(es, Len(es)) = warehouse.max_capacity

\* A wired graph with an edge whose inventory_level is below the value drawn for
\* it, in a warehouse that also left a selected part without an edge.
C4_ClippedAndSkipped ==
    /\ WarehousesWired
    /\ \E k \in 1 .. Len(AllWarehouses) :
          LET es == PartEdgesOf(AllWarehouses[k])
          IN  /\ \E i \in 1 .. Len(es) :
                    G.edge[es[i]].inventory_level < drawn_inventory[es[i]]
              /\ Len(es) < SelectedFor(AllWarehouses[k])

AllParts == AllOf(parts, <<"raw", "subassembly">>)

\* The entries a step appends to the operations log.
Appended == SubSeq(operations_log', Len(operations_log) + 1, Len(operations_log'))

\* Whether `log` holds an update entry for node id with timestamp ts.
NodeUpdateLogged(log, id, ts) ==
    \E i \in 1 .. Len(log) :
        /\ log[i].action = "update"
        /\ IsNodeOp(log[i])
        /\ log[i].payload.node_id = id
        /\ log[i].timestamp = ts

\* The validity of a part in months: its window is [BASE_DATE, BASE_DATE + 30*m days].
ValidityMonths(part) == (part.valid_till - BASE_DATE) \div 30

\* C5: a part whose validity window is [BASE_DATE, BASE_DATE + 30*m days] has its
\* cost updated, and the update logged, for period t >= 1 if and only if t <= m;
\* outside its window the part keeps its cost and is absent from the period's log.
C5_PartUpdatedIffInWindow ==
    [][/\ (GenerateDataTemporal \/ RegenerateAllPeriods) =>
            \A t \in 1 .. base_periods - 1 :
                \A k \in 1 .. Len(AllParts) :
                    LET part == AllParts[k]
                        cost == temporal_graphs'[t].node[part.id].cost
                    IN  /\ part.valid_from = BASE_DATE
                        /\ NodeUpdateLogged(Appended, part.id, timestamp + t)
                               <=> t <= ValidityMonths(part)
                        /\ cost = IF t <= ValidityMonths(part)
                                  THEN GenerateTemporalValue(TEMPORAL_VARIATION, part.cost,
                                           "cost", t, Hash(rng, 46, k, t))
                                  ELSE G.node[part.id].cost
       /\ SimulateNextPeriod =>
            LET t == MaxKey(temporal_graphs) + 1
            IN  \A k \in 1 .. Len(AllParts) :
                    LET part == AllParts[k]
                    IN  temporal_graphs'[t].node[part.id].cost
                            = IF t <= ValidityMonths(part)
                              THEN GenerateTemporalValue(TEMPORAL_VARIATION, part.cost,
                                       "cost", t, Hash(rng, 46, k, t))
                              ELSE temporal_graphs[t - 1].node[part.id].cost
      ]_vars

\* generate_data has stored period 2, and a part valid for one month is in the
\* log of period 1 and not in the log of period 2, where another part is.
C5_PartLeftItsWindow ==
    /\ pc = "ready"
    /\ calls = 0
    /\ 2 \in DOMAIN temporal_graphs
    /\ \E k \in 1 .. Len(AllParts) :
          /\ ValidityMonths(AllParts[k]) = 1
          /\ NodeUpdateLogged(operations_log, AllParts[k].id, 1)
          /\ ~NodeUpdateLogged(operations_log, AllParts[k].id, 2)
    /\ \E k \in 1 .. Len(AllParts) : NodeUpdateLogged(operations_log, AllParts[k].id, 2)

\* The create entries of the log for edges, and for nodes.
EdgeCreates == SelectSeq(operations_log, LAMBDA op : op.action = "create" /\ IsEdgeOp(op))
NodeCreates == SelectSeq(operations_log, LAMBDA op : op.action = "create" /\ IsNodeOp(op))

\* C6: after period-0 construction every edge of the period-0 graph has exactly
\* one create entry in the log and every node has exactly one: the number of
\* edge-create entries equals the number of edges, and no (source, target) pair
\* is named by two create entries.
C6_OneCreatePerEdgeAndNode ==
    pc = "temporal" =>
        LET named == {<<EdgeCreates[i].payload.source_id, EdgeCreates[i].payload.target_id>> :
                         i \in 1 .. Len(EdgeCreates)}
            ids == {NodeCreates[i].payload.node_id : i \in 1 .. Len(NodeCreates)}
        IN  /\ Len(EdgeCreates) = Len(G.edge_ids)
            /\ Cardinality(named) = Len(EdgeCreates)
            /\ named = DOMAIN G.edge
            /\ Len(NodeCreates) = Len(G.node_ids)
            /\ Cardinality(ids) = Len(NodeCreates)
            /\ ids = DOMAIN G.node

\* The attribute dictionary an update entry is about, in graph g.
TargetOf(op, g) ==
    IF IsNodeOp(op) THEN g.node[op.payload.node_id]
    ELSE g.edge[<<op.payload.source_id, op.payload.target_id>>]

\* The node or edge an entry names.
NamedBy(op) ==
    IF IsNodeOp(op) THEN <<op.payload.node_id>>
    ELSE <<op.payload.source_id, op.payload.target_id>>

\* Whether the entries `log` hold an update entry of timestamp ts that names
\* `target` and has attribute a in its properties.
AttributeLogged(log, target, ts, a) ==
    \E i \in 1 .. Len(log) :
        /\ log[i].action = "update"
        /\ log[i].timestamp = ts
        /\ NamedBy(log[i]) = target
        /\ a \in DOMAIN log[i].payload.properties

\* The attributes of `new` whose value differs from the one in `old`.
Changed(old, new) == {a \in DOMAIN new : a \notin DOMAIN old \/ old[a] # new[a]}

\* C7: during temporal evolution each attribute value written to a node or edge
\* of a period snapshot has exactly one update entry for that node or edge, whose
\* properties are exactly the changed fields, keyed by the attribute names
\* written to the snapshot.
C7_UpdateEntryPerWrite ==
    [][(GenerateDataTemporal \/ RegenerateAllPeriods) =>
          \A t \in 1 .. base_periods - 1 :
              LET snapshot == temporal_graphs'[t]
                  entries == SelectSeq(Appended, LAMBDA op : op.timestamp = timestamp + t)
              IN  /\ \A i \in 1 .. Len(entries) :
                        /\ entries[i].action = "update"
                        /\ \A a \in DOMAIN entries[i].payload.properties :
                              /\ a \in DOMAIN TargetOf(entries[i], snapshot)
                              /\ TargetOf(entries[i], snapshot)[a]
                                     = entries[i].payload.properties[a]
                        /\ \A j \in 1 .. Len(entries) :
                              NamedBy(entries[i]) = NamedBy(entries[j]) => i = j
                  /\ \A id \in DOMAIN snapshot.node :
                        \A a \in Changed(G.node[id], snapshot.node[id]) :
                            AttributeLogged(entries, <<id>>, timestamp + t, a)
                  /\ \A e \in DOMAIN snapshot.edge :
                        \A a \in Changed(G.edge[e], snapshot.edge[e]) :
                            AttributeLogged(entries, e, timestamp + t, a)
      ]_vars

\* Whether the entries `log` hold an update entry that names `target` and has
\* attribute a in its properties.
UpdateLogged(log, target, a) ==
    \E i \in 1 .. Len(log) :
        /\ log[i].action = "update"
        /\ NamedBy(log[i]) = target
        /\ a \in DOMAIN log[i].payload.properties

\* C8: like full regeneration, every call of simulate_next_period appends to the
\* log one update entry for each node and edge attribute it overwrites in the
\* new snapshot.
C8_SimulationIsLogged ==
    [][(SimulateNextPeriod \/ SimulateMultiplePeriods) =>
          \A t \in DOMAIN temporal_graphs' \ DOMAIN temporal_graphs :
              LET before == temporal_graphs'[t - 1]
                  after == temporal_graphs'[t]
              IN  /\ \A id \in DOMAIN after.node :
                        \A a \in Changed(before.node[id], after.node[id]) :
                            UpdateLogged(Appended, <<id>>, a)
                  /\ \A e \in DOMAIN after.edge :
                        \A a \in Changed(before.edge[e], after.edge[e]) :
                            UpdateLogged(Appended, e, a)
      ]_vars

\* Whether every in-scope attribute of `snapshot` is the temporal formula for
\* period t, with the draws of the random source in state r, applied to the
\* attribute's value in `base`.
EvolvedFrom(base, snapshot, t, r) ==
    LET tv == TEMPORAL_VARIATION
        edges == EdgesInOrder(base)
        Evolved(value, feature_type, site, k) ==
            GenerateTemporalValue(tv, value, feature_type, t, Hash(r, site, k, t))
    IN  /\ snapshot.node[business_group.id].revenue
               = Evolved(base.node[business_group.id].revenue, "revenue", 40, 0)
        /\ \A k \in 1 .. Len(product_families) :
              LET id == product_families[k].id
              IN  snapshot.node[id].revenue = Evolved(base.node[id].revenue, "revenue", 41, k)
        /\ \A k \in 1 .. Len(product_offerings) :
              LET id == product_offerings[k].id
              IN  /\ snapshot.node[id].cost = Evolved(base.node[id].cost, "cost", 42, k)
                  /\ snapshot.node[id].demand = Evolved(base.node[id].demand, "demand", 43, k)
        /\ \A k \in 1 .. Len(AllWarehouses) :
              LET id == AllWarehouses[k].id
              IN  snapshot.node[id].current_capacity
                      = Evolved(base.node[id].current_capacity, "capacity", 44, k)
        /\ \A k \in 1 .. Len(suppliers) :
              LET id == suppliers[k].id
              IN  snapshot.node[id].reliability
                      = Evolved(base.node[id].reliability, "reliability", 45, k)
        /\ \A k \in 1 .. Len(AllParts) :
              LET id == AllParts[k].id
              IN  InValidityWindow(AllParts[k], PeriodDate(t)) =>
                      snapshot.node[id].cost = Evolved(base.node[id].cost, "cost", 46, k)
        /\ \A e \in 1 .. Len(edges) :
              LET old == base.edge[edges[e]]
                  new == snapshot.edge[edges[e]]
              IN  /\ "transportation_cost" \in DOMAIN old =>
                         new.transportation_cost
                             = Evolved(old.transportation_cost, "transportation_cost", 47, e)
                  /\ "inventory_level" \in DOMAIN old =>
                         new.inventory_level
                             = Evolved(old.inventory_level, "inventory", 48, e)

\* C9: under full regeneration, for every period t in 1..base_periods-1 and
\* every in-scope attribute, warehouse current_capacity included, the period-t
\* value is the temporal formula applied to the value in the period-0 snapshot.
C9_RegeneratedFromPeriodZero ==
    [][(GenerateDataTemporal \/ RegenerateAllPeriods) =>
          \A t \in 1 .. base_periods - 1 :
              EvolvedFrom(temporal_graphs'[0], temporal_graphs'[t], t, rng)
      ]_vars

\* C10: under incremental extension the value of every in-scope node and edge
\* attribute in snapshot k+1 is the temporal formula applied to the attribute's
\* current value in snapshot k.
C10_ExtendedFromLastSnapshot ==
    [][SimulateNextPeriod =>
          LET k == MaxKey(temporal_graphs)
          IN  EvolvedFrom(temporal_graphs[k], temporal_graphs'[k + 1], k + 1, rng)
      ]_vars

\* Whether a full run of generate_data has completed.
Generated == pc = "ready"

\* C11: the stored period indices always form the range 0..k: generate_data
\* with base_periods = N stores exactly 0..N-1, simulate_next_period adds the
\* single period max+1 and returns it, and simulate_multiple_periods(n)
\* returns the n consecutive new periods in increasing order.
C11_PeriodsAreContiguous ==
    [][LET stored == DOMAIN temporal_graphs
           held == Cardinality(stored)
       IN  /\ \E k \in 0 .. Cardinality(DOMAIN temporal_graphs') :
                 DOMAIN temporal_graphs' = 0 .. (k - 1)
           /\ GenerateDataTemporal => DOMAIN temporal_graphs' = 0 .. (base_periods - 1)
           /\ SimulateNextPeriod =>
                 /\ DOMAIN temporal_graphs' = stored \cup {held}
                 /\ held \notin stored
                 /\ returned' = held
           /\ SimulateMultiplePeriods =>
                 \E n \in 1 .. MaxCalls :
                     /\ DOMAIN temporal_graphs' = stored \cup (held .. (held + n - 1))
                     /\ stored \cap (held .. (held + n - 1)) = {}
                     /\ returned' = [i \in 1 .. n |-> held + i - 1]
      ]_vars

\* After extensions of a three-period run, five contiguous periods are stored.
C11_ExtendedTwice ==
    /\ Generated
    /\ base_periods = 3
    /\ calls = 2
    /\ DOMAIN temporal_graphs = 0 .. 4

\* C12: after generate_data every log entry of period 0 has action create and
\* every entry of a period >= 1 has action update.
C12_CreateThenUpdate ==
    Generated =>
        \A i \in 1 .. Len(operations_log) :
            LET op == operations_log[i]
            IN  /\ op.timestamp = 0 => op.action = "create"
                /\ op.timestamp >= 1 => op.action = "update"
                /\ calls = 0 => op.timestamp \in 0 .. (base_periods - 1)

\* C13: after any sequence of full regenerations and incremental extensions
\* every stored snapshot has exactly the node set and the edge set of the
\* period-0 snapshot.
C13_ShapeIsFixed ==
    \A t \in DOMAIN temporal_graphs :
        /\ temporal_graphs[t].node_ids = temporal_graphs[0].node_ids
        /\ DOMAIN temporal_graphs[t].node = DOMAIN temporal_graphs[0].node
        /\ temporal_graphs[t].edge_ids = temporal_graphs[0].edge_ids
        /\ DOMAIN temporal_graphs[t].edge = DOMAIN temporal_graphs[0].edge

\* After a regeneration and an extension, a later snapshot whose attribute
\* values differ from those of period 0.
C13_ValuesMovedShapeKept ==
    /\ Generated
    /\ calls = 2
    /\ current_period = base_periods
    /\ temporal_graphs[0].edge_ids # <<>>
    /\ temporal_graphs[current_period].edge # temporal_graphs[0].edge
    /\ temporal_graphs[current_period].node # temporal_graphs[0].node

\* The attributes the temporal passes rewrite.
NodeAttributesInScope == {"revenue", "cost", "demand", "current_capacity", "reliability"}
EdgeAttributesInScope == {"transportation_cost", "inventory_level"}

\* C14: regenerate_all_periods, called after any number of extensions,
\* discards every stored period, restores a period-0 snapshot equal to the
\* original period-0 graph and recomputes periods 1..base_periods-1 from that
\* baseline; no period index >= base_periods remains stored.
C14_RegenerationRestartsFromBaseline ==
    [][RegenerateAllPeriods =>
          /\ DOMAIN temporal_graphs' = 0 .. (base_periods - 1)
          /\ temporal_graphs'[0] = temporal_graphs[0]
          /\ temporal_graphs'[0] = G
          /\ \A t \in 1 .. (base_periods - 1) :
                LET baseline == temporal_graphs[0]
                    period_graph == temporal_graphs'[t]
                IN  /\ period_graph.node_ids = baseline.node_ids
                    /\ period_graph.edge_ids = baseline.edge_ids
                    /\ \A id \in DOMAIN baseline.node :
                          Changed(baseline.node[id], period_graph.node[id])
                              \subseteq NodeAttributesInScope
                    /\ \A e \in DOMAIN baseline.edge :
                          Changed(baseline.edge[e], period_graph.edge[e])
                              \subseteq EdgeAttributesInScope
      ]_vars

\* A regeneration made right after an extension (of the two calls made, the
\* last reset current_period and only one advanced the timestamp): only
\* periods 0..base_periods-1 are stored.
C14_RegeneratedAfterExtension ==
    /\ Generated
    /\ calls = 2
    /\ current_period = 0
    /\ base_periods = 2
    /\ timestamp = 2
    /\ DOMAIN temporal_graphs = 0 .. 1

\* C15: the log is append-only and keeps call order: for every operation of
\* the generator the log before it is a prefix of the log after it, the entries
\* appear in the order of the recording calls (timestamps never decrease, and
\* the capacity update of a warehouse directly follows the creation of the
\* warehouse-to-part edge that caused it), and every action is create or update.
C15_LogIsAppendOnly ==
    [][/\ Len(operations_log') >= Len(operations_log)
       /\ SubSeq(operations_log', 1, Len(operations_log)) = operations_log
       /\ \A i \in 1 .. Len(Appended) :
             /\ Appended[i].action \in {"create", "update"}
             /\ i > 1 => Appended[i - 1].timestamp <= Appended[i].timestamp
             /\ (i = 1 /\ operations_log # <<>>) =>
                    operations_log[Len(operations_log)].timestamp <= Appended[i].timestamp
             /\ (/\ IsEdgeOp(Appended[i])
                 /\ Appended[i].action = "create"
                 /\ Appended[i].payload.edge_type = "WAREHOUSE_PARTS") =>
                    /\ i < Len(Appended)
                    /\ IsNodeOp(Appended[i + 1])
                    /\ Appended[i + 1].action = "update"
                    /\ Appended[i + 1].payload.node_id = Appended[i].payload.source_id
      ]_vars

\* A log that generate_data, an extension and a regeneration have acted on:
\* it holds creates, the period-0 capacity updates and the updates of two
\* regeneration passes.
C15_LogOfAllOperations ==
    /\ Generated
    /\ calls = 2
    /\ base_periods = 2
    /\ timestamp = 2
    /\ \E i \in 1 .. Len(operations_log) :
          /\ operations_log[i].action = "update"
          /\ operations_log[i].timestamp = 0
    /\ \E i \in 1 .. Len(operations_log) : operations_log[i].timestamp = 2

FeatureTypes == {"revenue", "cost", "demand", "capacity", "reliability", "inventory",
                 "transportation_cost"}
BaseValues ==
    {business_group.revenue}
        \cup {product_offerings[k].cost : k \in 1 .. Len(product_offerings)}
        \cup {product_offerings[k].demand : k \in 1 .. Len(product_offerings)}
        \cup {suppliers[k].reliability : k \in 1 .. Len(suppliers)}
Periods == 0 .. 12
Draws == {0, rng, HashMod \div 2, HashMod - 1}

\* C17: with trend = 0 and max_change = 0 configured for a feature,
\* _generate_temporal_value returns exactly base * seasonal_factor(t) for every
\* period t, and seasonal_factor is 1 for every feature other than demand and
\* cost, so for those the value equals base.  The snapshots hold such values.
C17_NoTrendNoNoise ==
    Generated =>
        /\ \A ft \in FeatureTypes :
              (/\ ft \in DOMAIN TEMPORAL_VARIATION
               /\ TEMPORAL_VARIATION[ft] = [max_change |-> 0, trend |-> 0]) =>
                  \A base \in BaseValues : \A t \in Periods : \A h \in Draws :
                      LET value == GenerateTemporalValue(TEMPORAL_VARIATION, base, ft, t, h)
                      IN  /\ value = (base * SeasonalFactor(ft, t)) \div Scale
                          /\ ft \notin {"demand", "cost"} => value = base
        /\ (\A ft \in FeatureTypes :
               /\ ft \in DOMAIN TEMPORAL_VARIATION
               /\ TEMPORAL_VARIATION[ft] = [max_change |-> 0, trend |-> 0]) =>
              \A t \in DOMAIN temporal_graphs \ {0} :
                  /\ temporal_graphs[t].node[business_group.id].revenue
                         = business_group.revenue
                  /\ \A k \in 1 .. Len(suppliers) :
                        temporal_graphs[t].node[suppliers[k].id].reliability
                            = suppliers[k].reliability
                  /\ \A k \in 1 .. Len(product_offerings) :
                        temporal_graphs[t].node[product_offerings[k].id].cost
                            = (product_offerings[k].cost * SeasonalFactor("cost", t)) \div Scale

\* Under the table without trend and noise, a stored period whose product cost
\* moved with the season while the revenue stayed at its base value.
C17_OnlySeasonMoves ==
    /\ Generated
    /\ TEMPORAL_VARIATION["cost"] = [max_change |-> 0, trend |-> 0]
    /\ TEMPORAL_VARIATION["revenue"] = [max_change |-> 0, trend |-> 0]
    /\ suppliers # <<>>
    /\ \E t \in DOMAIN temporal_graphs \ {0} :
          /\ temporal_graphs[t].node[product_offerings[1].id].cost # product_offerings[1].cost
          /\ temporal_graphs[t].node[business_group.id].revenue = business_group.revenue

\* C18: for every budget >= 1 generate_data completes without a sampling
\* failure: every requested sample size is clamped to the population's size.
C18_GenerationIsTotal ==
    pc # "failed"

AllFacilities == AllOf(facilities, <<"external", "lam">>)

\* The records of the entities created so far, in the order generate_data
\* creates them.
EntityRecords ==
    (IF business_group = None THEN <<>> ELSE <<business_group>>)
        \o product_families \o product_offerings \o suppliers
        \o AllWarehouses \o AllFacilities \o AllParts

\* The prefixes of the identifiers with a counter.
IdPrefixes == {"PF", "PO", "S", "W", "F", "P"}

\* C19: identifiers are unique and stable: all node identifiers created at
\* period 0 are pairwise distinct within and across the entity kinds (prefix
\* and zero-padded counter, also for counters above 999), and no later
\* operation changes an identifier or deletes an entity.
C19_IdentifiersUniqueAndStable ==
    /\ pc = "constructed" =>
          Cardinality({MakeId(prefix, n) : prefix \in IdPrefixes, n \in 1 .. MaxCounter}
                          \cup {"BG_001"})
              = (Cardinality(IdPrefixes) * MaxCounter) + 1
    /\ \A k \in 1 .. Len(suppliers) : suppliers[k].id = MakeId("S", k)
    /\ \A k \in 1 .. Len(AllWarehouses) : AllWarehouses[k].id = MakeId("W", k)
    /\ \A k \in 1 .. Len(AllFacilities) : AllFacilities[k].id = MakeId("F", k)
    /\ \A k \in 1 .. Len(AllParts) : AllParts[k].id = MakeId("P", k)
    /\ G.node_ids = [k \in 1 .. Len(EntityRecords) |-> EntityRecords[k].id]
    /\ \A g \in HeldGraphs :
          /\ g.node_ids = G.node_ids
          /\ Cardinality(DOMAIN g.node) = Len(g.node_ids)
          /\ \A id \in DOMAIN g.node : g.node[id].id = id

\* After a regeneration and extensions of a run with several entities of
\* every kind.
C19_EntitiesKeptThroughCalls ==
    /\ Generated
    /\ calls = 2
    /\ total_variable_nodes = 34
    /\ Len(AllFacilities) > 1
    /\ Len(G.node_ids) > 50
    /\ DOMAIN temporal_graphs = 0 .. base_periods

\* C20: the size_category of every supplier, created by the generator or
\* added through SupplyChainManager.add_supplier, is the category of its size
\* against the fixed breakpoints: size <= 300 small, size <= 600 medium,
\* otherwise large.
C20_CategoryFollowsSize ==
    \A k \in 1 .. Len(suppliers) :
        LET InCategory(supplier) ==
                /\ supplier.size <= 300 => supplier.size_category = "small"
                /\ (supplier.size > 300 /\ supplier.size <= 600) =>
                       supplier.size_category = "medium"
                /\ supplier.size > 600 => supplier.size_category = "large"
        IN  /\ InCategory(suppliers[k])
            /\ InCategory(G.node[suppliers[k].id])

\* Generated suppliers of two categories, and two suppliers added at the
\* breakpoints 300 and 600.
C20_SuppliersAtBreakpoints ==
    /\ Generated
    /\ calls = 2
    /\ \E k \in 1 .. Len(suppliers) :
          suppliers[k].name = "Supplier_1" /\ suppliers[k].size_category = "small"
    /\ \E k \in 1 .. Len(suppliers) :
          suppliers[k].name # "New Supplier" /\ suppliers[k].size_category = "medium"
    /\ \E k \in 1 .. Len(suppliers) :
          suppliers[k].name = "New Supplier" /\ suppliers[k].size = 300
    /\ \E k \in 1 .. Len(suppliers) :
          suppliers[k].name = "New Supplier" /\ suppliers[k].size = 600

(***************************************************************************)
(* Wiring of the period-0 graph.                                           *)
(***************************************************************************)
\* Whether _connect_suppliers_to_warehouses has run.
SuppliersWired ==
    pc \notin {"new", "constructed", "suppliers", "warehouses", "facilities", "parts",
               "suppliers_to_warehouses"}

\* Whether `supplier` can supply a part type of the pool `kind`.
Supplies(supplier, kind) ==
    \E i \in 1 .. Len(supplier.supplied_part_types) :
        \E j \in 1 .. Len(PART_TYPES[kind]) :
            supplier.supplied_part_types[i] = PART_TYPES[kind][j]

\* The warehouses of `pool` the period-0 graph connects `supplier` to.
ConnectedIn(supplier, pool) ==
    {pool[j].id : j \in {i \in 1 .. Len(pool) : <<supplier.id, pool[i].id>> \in DOMAIN G.edge}}

WarehouseEdgesOf(supplier) ==
    ConnectedIn(supplier, warehouses.supplier)
        \cup ConnectedIn(supplier, warehouses.subassembly)
        \cup ConnectedIn(supplier, warehouses.lam)

\* C22: in the period-0 graph the total number of outgoing supplier-to-warehouse
\* edges of every supplier is at most the max_connections of its size category
\* (2 small, 4 medium, 6 large).
C22_ConnectionsWithinMaximum ==
    SuppliersWired =>
        \A k \in 1 .. Len(suppliers) :
            Cardinality(WarehouseEdgesOf(suppliers[k]))
                <= SUPPLIER_SIZES[suppliers[k].size_category].max_connections

\* The outgoing edges of `warehouse` in the period-0 graph, in creation order.
OutEdgesOf(warehouse) == SelectSeq(G.edge_ids, LAMBDA e : e[1] = warehouse.id)

\* The ids of the parts `warehouse` may hold: raw parts for a supplier-type
\* warehouse, subassembly parts for any other.
MatchingPool(warehouse) ==
    LET pool == IF warehouse.type = "supplier" THEN parts.raw ELSE parts.subassembly
    IN  {pool[j].id : j \in 1 .. Len(pool)}

\* C23: every warehouse has at most max_parts outgoing part edges, all to
\* distinct parts of the matching pool (raw for supplier-type warehouses,
\* subassembly for subassembly- and lam-type ones), each with
\* inventory_level >= 1, and in the period-0 graph its current_capacity equals
\* the sum of inventory_level over its outgoing warehouse-to-part edges.
C23_PartEdgesWithinPoolAndCapacity ==
    WarehousesWired =>
        \A k \in 1 .. Len(AllWarehouses) :
            LET warehouse == AllWarehouses[k]
                out == OutEdgesOf(warehouse)
            IN  /\ Len(out) <= warehouse.max_parts
                /\ Cardinality({out[j][2] : j \in 1 .. Len(out)}) = Len(out)
                /\ \A j \in 1 .. Len(out) :
                       /\ out[j][2] \in MatchingPool(warehouse)
                       /\ G.edge[out[j]].inventory_level >= 1
                /\ G.node[warehouse.id].current_capacity = AssignedBy(out, Len(out))

\* The wiring has run over a warehouse whose pool is larger than max_parts and
\* which received max_parts edges, and over warehouses of all three types that
\* hold parts.
C23_FullAndPartialWarehouses ==
    /\ WarehousesWired
    /\ \E k \in 1 .. Len(AllWarehouses) :
           /\ Cardinality(MatchingPool(AllWarehouses[k])) > AllWarehouses[k].max_parts
           /\ Len(OutEdgesOf(AllWarehouses[k])) = AllWarehouses[k].max_parts
    /\ \A ty \in {"supplier", "subassembly", "lam"} :
           \E k \in 1 .. Len(AllWarehouses) :
               /\ AllWarehouses[k].type = ty
               /\ Len(OutEdgesOf(AllWarehouses[k])) > 1
               /\ G.node[AllWarehouses[k].id].current_capacity > 0

\* Whether _connect_facilities_to_products has run.
ProductsWired == pc \in {"hierarchy", "distances", "temporal", "ready"}

\* Whether the period-0 graph has an edge from node u to node v.
HasEdge(u, v) == <<u, v>> \in DOMAIN G.edge

\* Whether some lam facility produces the offering `po`.
Produced(po) == \E f \in 1 .. Len(facilities.lam) : HasEdge(facilities.lam[f].id, po.id)

\* C24: a product offering has an edge to a lam-type warehouse if and only if
\* at least one lam facility produces it, and then it has an edge to every
\* lam-type warehouse; facility-to-offering edges originate only from lam
\* facilities.
C24_ProducedOfferingsStoredInLamWarehouses ==
    ProductsWired =>
        \A p \in 1 .. Len(product_offerings) :
            LET po == product_offerings[p]
            IN  /\ (\E w \in 1 .. Len(warehouses.lam) : HasEdge(po.id, warehouses.lam[w].id))
                       <=> Produced(po)
                /\ Produced(po) =>
                       \A w \in 1 .. Len(warehouses.lam) : HasEdge(po.id, warehouses.lam[w].id)
                /\ \A f \in 1 .. Len(facilities.external) :
                       ~HasEdge(facilities.external[f].id, po.id)
                /\ \A w \in 1 .. Len(AllWarehouses) :
                       HasEdge(po.id, AllWarehouses[w].id) => AllWarehouses[w].type = "lam"

\* The wiring has run with several lam warehouses and lam facilities, over an
\* offering that is produced and one that no lam facility produces.
C24_ProducedAndUnproducedOfferings ==
    /\ ProductsWired
    /\ Len(warehouses.lam) > 1
    /\ Len(facilities.lam) > 1
    /\ Len(facilities.external) > 0
    /\ \E p \in 1 .. Len(product_offerings) : Produced(product_offerings[p])
    /\ \E p \in 1 .. Len(product_offerings) : ~Produced(product_offerings[p])

\* Whether _connect_hierarchy has run.
HierarchyWired == pc \in {"distances", "temporal", "ready"}

\* The nodes of the period-0 graph whose node_type is ty.
NodesOfType(ty) == {n \in DOMAIN G.node : G.node[n].node_type = ty}

\* The offering names the catalog lists for the family named `family`.
Catalog(family) ==
    {PRODUCT_OFFERINGS[family][i] : i \in 1 .. Len(PRODUCT_OFFERINGS[family])}

\* C25: whatever the budget, the graph holds exactly one business group, 4
\* product families and 21 product offerings; the business group has an edge
\* to each family, each family has an edge to exactly its catalog-defined
\* offerings, and every offering has exactly one parent family.
C25_HierarchyIsFixed ==
    HierarchyWired =>
        /\ NodesOfType("business_group") = {business_group.id}
        /\ Cardinality(NodesOfType("product_family")) = 4
        /\ Cardinality(NodesOfType("product_offering")) = 21
        /\ Len(product_families) = 4
        /\ Len(product_offerings) = 21
        /\ \A f \in 1 .. Len(product_families) :
               /\ HasEdge(business_group.id, product_families[f].id)
               /\ \A p \in 1 .. Len(product_offerings) :
                      HasEdge(product_families[f].id, product_offerings[p].id)
                          <=> product_offerings[p].name \in Catalog(product_families[f].name)
        /\ \A p \in 1 .. Len(product_offerings) :
               Cardinality({f \in 1 .. Len(product_families) :
                                HasEdge(product_families[f].id, product_offerings[p].id)}) = 1
        /\ \A e \in DOMAIN G.edge :
               /\ e[1] = business_group.id => e[2] \in NodesOfType("product_family")
               /\ e[1] \in NodesOfType("product_family") =>
                      e[2] \in NodesOfType("product_offering")

\* The hierarchy is wired in a graph that holds warehouses, facilities and
\* parts as well.
C25_HierarchyInPopulatedGraph ==
    /\ HierarchyWired
    /\ total_variable_nodes > 10
    /\ Len(AllWarehouses) > 0
    /\ Len(AllFacilities) > 0
    /\ Len(AllParts) > 0
    /\ Len(G.node_ids) > 26

\* A step that computes periods leaves G as it was; an extension leaves each
\* stored snapshot as it was; a regeneration stores G as period 0 and, as
\* period t, G with the writes of period t alone.
IsolatedStep ==
    pc \in {"temporal", "ready"} =>
        /\ G' = G
        /\ (pc = "ready" /\ calls' # calls /\ current_period' > 0) =>
               (\A t \in DOMAIN temporal_graphs :
                    /\ t \in DOMAIN temporal_graphs'
                    /\ temporal_graphs'[t] = temporal_graphs[t])
        /\ (pc = "temporal" \/ (calls' # calls /\ current_period' = 0)) =>
               (/\ temporal_graphs'[0] = G
                /\ (0 \in DOMAIN temporal_graphs => temporal_graphs'[0] = temporal_graphs[0])
                /\ \A t \in 1 .. base_periods - 1 :
                       temporal_graphs'[t] =
                           ApplyWrites(G, TemporalPeriod(rng, TEMPORAL_VARIATION, G, t,
                                                         timestamp + t, business_group,
                                                         product_families,
                                                         product_offerings, warehouses,
                                                         suppliers, parts)))

\* C26: computing a new period, by full regeneration or by simulate_next_period,
\* leaves every attribute value of every previously stored snapshot, period 0
\* included, and of G unchanged, and a write to the snapshot of period t is
\* never visible in the snapshot of another period.
C26_SnapshotsAreIsolated == [][IsolatedStep]_vars

\* Three periods were regenerated and a fourth was added by extension, each
\* snapshot differing from the one it was copied from.
C26_SnapshotsDiffer ==
    /\ Generated
    /\ calls = 2
    /\ base_periods = 3
    /\ current_period = base_periods
    /\ timestamp = 2 * (base_periods - 1)
    /\ temporal_graphs[1] # temporal_graphs[0]
    /\ temporal_graphs[2] # temporal_graphs[1]
    /\ temporal_graphs[current_period] # temporal_graphs[2]

\* The entries generate_temporal_data emits for period t when it stamps them
\* with the index ts.
PeriodEntries(t, ts) ==
    LoggedBy(TemporalPeriod(rng, TEMPORAL_VARIATION, G, t, ts, business_group,
                            product_families, product_offerings, warehouses,
                            suppliers, parts))

\* Every entry a step appends carries the index of the period being built: 0
\* on a create entry, t on the entries of period t.
StampedWithPeriod ==
    /\ \A i \in 1 .. Len(Appended) :
           Appended[i].action = "create" => Appended[i].timestamp = 0
    /\ (pc = "temporal" \/ (pc = "ready" /\ calls' # calls /\ current_period' = 0)) =>
           Appended = Flatten([t \in 1 .. base_periods - 1 |-> PeriodEntries(t, t)])

\* C27: the period index recorded in a log entry equals the period being built
\* when the entry was emitted: creation entries carry 0 and every update entry
\* emitted while computing period t carries t, for any sequence of
\* generate_data, simulate_next_period and regenerate_all_periods.
C27_EntriesCarryTheirPeriod == [][StampedWithPeriod]_vars

\* Whether period t lies outside the validity window of `part`.
OutsideWindow(part, t) ==
    BASE_DATE + (30 * t) < part.valid_from \/ BASE_DATE + (30 * t) > part.valid_till

\* Whether the entries `log` name the node id.
NamesNode(log, id) ==
    \E i \in 1 .. Len(log) : IsNodeOp(log[i]) /\ log[i].payload.node_id = id

\* A step that computes periods leaves, for each part outside its window in
\* period t, the cost of the graph the period was copied from, and appends no
\* entry for that part among the entries of period t.
OutsidePartsUntouched ==
    /\ (pc = "temporal" \/ (pc = "ready" /\ calls' # calls /\ current_period' = 0)) =>
           \A t \in 1 .. base_periods - 1 :
               \A k \in 1 .. Len(AllParts) :
                   OutsideWindow(AllParts[k], t) =>
                       /\ temporal_graphs'[t].node[AllParts[k].id].cost
                              = G.node[AllParts[k].id].cost
                       /\ ~NamesNode(SelectSeq(Appended,
                                               LAMBDA op : op.timestamp = timestamp + t),
                                     AllParts[k].id)
    /\ (pc = "ready" /\ calls' # calls /\ current_period' > 0) =>
           \A t \in DOMAIN temporal_graphs' \ DOMAIN temporal_graphs :
               \A k \in 1 .. Len(AllParts) :
                   OutsideWindow(AllParts[k], t) =>
                       /\ temporal_graphs'[t].node[AllParts[k].id].cost
                              = temporal_graphs'[t - 1].node[AllParts[k].id].cost
                       /\ ~NamesNode(Appended, AllParts[k].id)

\* C28: a part that is outside its validity window in period t keeps, in the
\* period-t snapshot, the cost of the snapshot that period was copied from (the
\* period-0 value under full regeneration), and no log entry for that part is
\* emitted for period t.
C28_PartOutsideWindowKeepsCost == [][OutsidePartsUntouched]_vars

\* An extension has stored a period in which one part, outside its window, kept
\* the cost of the previous snapshot while another part's cost moved, after a
\* full generation whose last period already had a part outside its window.
C28_ExpiredPartKept ==
    /\ Generated
    /\ calls > 0
    /\ current_period >= base_periods
    /\ base_periods = 3
    /\ \E k \in 1 .. Len(AllParts) : OutsideWindow(AllParts[k], base_periods - 1)
    /\ \E k \in 1 .. Len(AllParts) :
           /\ OutsideWindow(AllParts[k], current_period)
           /\ temporal_graphs[current_period].node[AllParts[k].id].cost
                  = temporal_graphs[current_period - 1].node[AllParts[k].id].cost
    /\ \E k \in 1 .. Len(AllParts) :
           /\ ~OutsideWindow(AllParts[k], current_period)
           /\ temporal_graphs[current_period].node[AllParts[k].id].cost
                  # temporal_graphs[current_period - 1].node[AllParts[k].id].cost

\* C29: the edge type tag of every edge update entry equals the tag under which
\* the same (source, target) edge was logged at creation; in particular an
\* offering-to-warehouse edge is never logged with the warehouse-to-part tag.
C29_UpdateTagMatchesCreateTag ==
    \A i \in 1 .. Len(operations_log) :
        (IsEdgeOp(operations_log[i]) /\ operations_log[i].action = "update") =>
            \A j \in 1 .. Len(EdgeCreates) :
                (/\ EdgeCreates[j].payload.source_id = operations_log[i].payload.source_id
                 /\ EdgeCreates[j].payload.target_id = operations_log[i].payload.target_id)
                    => EdgeCreates[j].payload.edge_type
                           = operations_log[i].payload.edge_type

\* Whether a create entry for the node or edge `named` precedes position i of
\* `log`.
CreatedBefore(log, named, i) ==
    \E j \in 1 .. i - 1 : log[j].action = "create" /\ NamedBy(log[j]) = named

\* Whether the i-th entry of `log` comes after the create entries it depends
\* on: those of both endpoint nodes for an edge create entry, that of its own
\* node or edge for an update entry.
InCreationOrder(log, i) ==
    /\ (log[i].action = "create" /\ IsEdgeOp(log[i])) =>
           /\ CreatedBefore(log, <<log[i].payload.source_id>>, i)
           /\ CreatedBefore(log, <<log[i].payload.target_id>>, i)
    /\ log[i].action = "update" => CreatedBefore(log, NamedBy(log[i]), i)

\* A step keeps the entries the log holds and puts each entry it appends
\* after the create entries that entry depends on.
AppendedInCreationOrder ==
    /\ SubSeq(operations_log', 1, Len(operations_log)) = operations_log
    /\ \A i \in Len(operations_log) + 1 .. Len(operations_log') :
           InCreationOrder(operations_log', i)

\* C30: in the log, which starts empty, every edge create entry appears after
\* the create entries of both of its endpoint nodes, and every update entry
\* for a node or edge appears after the create entry of that node or edge.
C30_CreatedBeforeUsed == [][AppendedInCreationOrder]_vars

\* The log holds edge create entries, period-0 update entries and the update
\* entries of a temporal pass, for nodes and for edges.
C30_CreatesAndUpdatesLogged ==
    /\ Generated
    /\ timestamp > 0
    /\ Len(EdgeCreates) > 10
    /\ \E i \in 1 .. Len(operations_log) :
           /\ operations_log[i].action = "update"
           /\ IsNodeOp(operations_log[i])
           /\ operations_log[i].timestamp = 0
    /\ \E i \in 1 .. Len(operations_log) :
           /\ operations_log[i].action = "update"
           /\ IsEdgeOp(operations_log[i])
           /\ operations_log[i].timestamp > 0

=============================================================================
